---------------------------- MODULE MC_UploadBody ----------------------------
EXTENDS UploadBody

CONSTANTS s1, s2, s3

MCStreams == {s1, s2, s3}
===============================================================================
