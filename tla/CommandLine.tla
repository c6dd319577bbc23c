----------------------------- MODULE CommandLine -----------------------------
(***************************************************************************)
(* The getopt_long loop of main() in src/src/nghttp.cc: each option        *)
(* updates the global Config, or exits.  An option argument is a sequence  *)
(* of characters, and the numeric ones are converted the way the C library *)
(* does: strtoul for -w and -m (skip spaces, an optional sign, the digits; *)
(* a '-' negates modulo 2^64; no digits give 0 without an error), atoi for *)
(* -t.  Arguments have at most MaxDigits digits, so no conversion          *)
(* overflows and ERANGE never happens; the int stores keep 32-bit wrap.    *)
(* The options that only set a Config field (-O -n -v -a -s --cert --key)  *)
(* are recorded in the set of fields they set.                             *)
(***************************************************************************)
EXTENDS Integers, Sequences, FiniteSets, SequencesExt

CONSTANTS
  Names,      \* header names the user may give with -H
  Values,     \* non-empty header values
  NumArgs,    \* the arguments tried for -t, -w and -m: character sequences
  MaxDigits,  \* digits of a numeric argument, at most
  MaxArgs     \* options on the command line, at most

Digit == ("0" :> 0) @@ ("1" :> 1) @@ ("2" :> 2) @@ ("3" :> 3) @@ ("4" :> 4)
         @@ ("5" :> 5) @@ ("6" :> 6) @@ ("7" :> 7) @@ ("8" :> 8) @@ ("9" :> 9)

ASSUME /\ "" \notin Values /\ MaxArgs \in Nat /\ MaxDigits \in 1..9
       /\ \A s \in NumArgs :
            Cardinality({k \in DOMAIN s : s[k] \in DOMAIN Digit}) <= MaxDigits

NoField == "NoField"    \* a Config string that is empty

\* the options that set one Config field each: remote_name, null_out,
\* verbose, get_assets (a build with libxml2), stat, certfile, keyfile
FlagOpts == {"O", "n", "v", "a", "s", "cert", "key"}

(* One option of argv.  -H "name: value" is split at the first colon: an   *)
(* argument without a colon, an empty name or a value that is empty once   *)
(* leading spaces are skipped is possible too.  -d names a file, "-"       *)
(* (stdin) or one that does not exist; "?" is what getopt returns for an   *)
(* unknown option or a missing argument.                                   *)
Arg == [opt : {"H"}, colon : {FALSE}]
       \cup [opt : {"H"}, colon : {TRUE}, name : Names \cup {""},
             value : Values \cup {""}]
       \cup [opt : {"t", "w", "m"}, arg : NumArgs]
       \cup [opt : {"d"}, arg : {"-", "file", "missing"}]
       \cup [opt : {"no-tls", "h", "?"}]
       \cup [opt : FlagOpts]

VARIABLES
  argv,         \* the command line's options, as given (history)
  args,         \* the options getopt_long has not returned yet
  headers,      \* config.headers
  timeout,      \* config.timeout (int, milliseconds)
  window_bits,  \* config.window_bits
  multiply,     \* config.multiply (int)
  datafile,     \* config.datafile
  no_tls,       \* config.no_tls
  flags,        \* the options of FlagOpts whose Config field is set
  pc            \* "parse", "help" (exit 0), "exit" (exit 1), then run()'s

optVars ==
  <<argv, args, headers, timeout, window_bits, multiply, datafile, no_tls,
    flags>>

-----------------------------------------------------------------------------
(* The C library conversions                                               *)

RECURSIVE SkipSpace(_)
SkipSpace(s) == IF s # <<>> /\ Head(s) = " " THEN SkipSpace(Tail(s)) ELSE s

\* the value of the leading digits of s, accumulated onto acc
RECURSIVE DigitsValue(_, _)
DigitsValue(s, acc) ==
  IF s # <<>> /\ Head(s) \in DOMAIN Digit
  THEN DigitsValue(Tail(s), acc * 10 + Digit[Head(s)]) ELSE acc

\* the sign and magnitude strtoul and atoi read
Negative(s) == LET t == SkipSpace(s) IN t # <<>> /\ Head(t) = "-"
Magnitude(s) ==
  LET t == SkipSpace(s)
  IN DigitsValue(IF t # <<>> /\ Head(t) \in {"+", "-"} THEN Tail(t) ELSE t, 0)

\* strtoul(s, 0, 10): an unsigned long, kept as 2^64 - mag when negated
Strtoul(s) == [neg |-> Negative(s) /\ Magnitude(s) # 0, mag |-> Magnitude(s)]

\* the unsigned long n is below k
ULongLess(n, k) == ~n.neg /\ n.mag < k

\* the conversion of an unsigned long to int: its low 32 bits
ULongToInt(n) == IF n.neg THEN -n.mag ELSE n.mag

\* atoi(s)
Atoi(s) == IF Negative(s) THEN -Magnitude(s) ELSE Magnitude(s)

-----------------------------------------------------------------------------
(* The options                                                              *)

\* the rest of the loop iteration, for an option that stays in the loop
Continue == args' = Tail(args) /\ UNCHANGED pc

\* Mutant: a header with an empty value is accepted.
ParseHeaderNoValueCheck ==
  /\ pc = "parse" /\ args # <<>> /\ Head(args).opt = "H"
  /\ LET a == Head(args) IN
     IF ~a.colon \/ a.name = ""
     THEN pc' = "exit" /\ args' = Tail(args) /\ UNCHANGED headers
     ELSE /\ headers' = IF a.name \in DOMAIN headers THEN headers
                        ELSE headers @@ (a.name :> a.value)
          /\ Continue
  /\ UNCHANGED <<argv, timeout, window_bits, multiply, datafile, no_tls, flags>>

\* case 'H': an argument without a colon, with an empty name or with an
\* empty value exits; otherwise std::map::insert, which keeps an existing
\* entry of the same name
ParseHeader ==
  /\ pc = "parse" /\ args # <<>> /\ Head(args).opt = "H"
  /\ LET a == Head(args) IN
     IF ~a.colon \/ a.name = "" \/ a.value = ""
     THEN pc' = "exit" /\ args' = Tail(args) /\ UNCHANGED headers
     ELSE /\ headers' = IF a.name \in DOMAIN headers THEN headers
                        ELSE headers @@ (a.name :> a.value)
          /\ Continue
  /\ UNCHANGED <<argv, timeout, window_bits, multiply, datafile, no_tls, flags>>

\* case 't': config.timeout = atoi(optarg) * 1000
ParseTimeout ==
  /\ pc = "parse" /\ args # <<>> /\ Head(args).opt = "t"
  /\ timeout' = Atoi(Head(args).arg) * 1000
  /\ Continue
  /\ UNCHANGED <<argv, headers, window_bits, multiply, datafile, no_tls, flags>>

\* the test of case 'w': errno == 0 && n < 31 (no ERANGE within MaxDigits)
WindowBitsAccepted(n) == ULongLess(n, 31)

\* case 'w': strtoul, then the range check, or exit
ParseWindowBits ==
  /\ pc = "parse" /\ args # <<>> /\ Head(args).opt = "w"
  /\ LET n == Strtoul(Head(args).arg) IN
     IF WindowBitsAccepted(n)
     THEN window_bits' = n.mag /\ Continue
     ELSE pc' = "exit" /\ args' = Tail(args) /\ UNCHANGED window_bits
  /\ UNCHANGED <<argv, headers, timeout, multiply, datafile, no_tls, flags>>

\* case 'm': config.multiply = strtoul(optarg, 0, 10), stored in an int
ParseMultiply ==
  /\ pc = "parse" /\ args # <<>> /\ Head(args).opt = "m"
  /\ multiply' = ULongToInt(Strtoul(Head(args).arg))
  /\ Continue
  /\ UNCHANGED <<argv, headers, timeout, window_bits, datafile, no_tls, flags>>

\* case 'd': "-" becomes /dev/stdin
ParseData ==
  /\ pc = "parse" /\ args # <<>> /\ Head(args).opt = "d"
  /\ datafile' = IF Head(args).arg = "-" THEN "stdin" ELSE Head(args).arg
  /\ Continue
  /\ UNCHANGED <<argv, headers, timeout, window_bits, multiply, no_tls, flags>>

\* case 0, flag 3: --no-tls
ParseNoTls ==
  /\ pc = "parse" /\ args # <<>> /\ Head(args).opt = "no-tls"
  /\ no_tls' = TRUE
  /\ Continue
  /\ UNCHANGED <<argv, headers, timeout, window_bits, multiply, datafile,
                 flags>>

\* cases 'O', 'n', 'v', 'a', 's' and case 0 with flags 1 and 2 (--cert,
\* --key): a Config field is set
ParseFlag ==
  /\ pc = "parse" /\ args # <<>> /\ Head(args).opt \in FlagOpts
  /\ flags' = flags \cup {Head(args).opt}
  /\ Continue
  /\ UNCHANGED <<argv, headers, timeout, window_bits, multiply, datafile,
                 no_tls>>

\* case 'h': print_help, exit(EXIT_SUCCESS); case '?': exit(EXIT_FAILURE)
ParseExit ==
  /\ pc = "parse" /\ args # <<>> /\ Head(args).opt \in {"h", "?"}
  /\ pc' = IF Head(args).opt = "h" THEN "help" ELSE "exit"
  /\ args' = Tail(args)
  /\ UNCHANGED <<argv, headers, timeout, window_bits, multiply, datafile,
                 no_tls, flags>>

\* one iteration of the getopt_long loop
ParseOption ==
  \/ ParseHeader \/ ParseTimeout \/ ParseWindowBits \/ ParseMultiply
  \/ ParseData \/ ParseNoTls \/ ParseFlag \/ ParseExit

\* the Config defaults, and an argv of at most MaxArgs options
InitOptions ==
  /\ argv \in UNION {[1..n -> Arg] : n \in 0..MaxArgs}
  /\ args = argv
  /\ headers = [n \in {} |-> ""]
  /\ timeout = -1 /\ window_bits = -1 /\ multiply = 1
  /\ datafile = NoField /\ no_tls = FALSE /\ flags = {}
  /\ pc = "parse"

====
