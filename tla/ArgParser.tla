-------------------------------- MODULE ArgParser --------------------------------
(***************************************************************************)
(* The argument parser of the two clients, the same text in both: main     *)
(* from its first line to the point where it knows which requests to send. *)
(* It walks over argv once and stops at the first error.                   *)
(*                                                                         *)
(* An argument is a name.  What the parser reads of its characters is      *)
(* given by Stack, Number and Word.                                        *)
(***************************************************************************)
EXTENDS Integers, Sequences, SequencesExt

CONSTANTS
  Token,     \* the arguments of this instance
  Stack,     \* of an argument "-...", the letters in it ("-n", "-h" and "--..." are not in it)
  Number,    \* of an argument that strtol reads to its end, the value
  Word,      \* the arguments that do not begin with a dash
  MaxArgs,   \* bound: the number of arguments
  IdRange    \* 2^32 in the programs: a test id is a uint32_t

Program == {"hw_tester", "mthw_tester"}
Letter == {"u", "s", "i", "a", "t"}
Communication == {"u", "s", "i"}
Byte == 0..255
N_ITERATIONS == 1

\* The place of a test in main's chain of ifs, and the first of some tests.
Place == [u |-> 1, s |-> 2, i |-> 3, a |-> 4, t |-> 5]
First(letters) == CHOOSE l \in letters : \A m \in letters : Place[l] <= Place[m]

\* Messages when none is given, and what an ADC or timer test of hw_tester has.
Default == [u |-> "Hello UART", s |-> "Hello SPI", i |-> "Hello I2C"]
NoMessage == ""

ASSUME TokenAssumption ==
  /\ Stack \in [DOMAIN Stack -> Seq(STRING) \ {<< >>}]
  /\ Number \in [DOMAIN Number -> Int]
  /\ MaxArgs \in Nat /\ IdRange \in Nat \ {0}
  /\ DOMAIN Stack \cap (Word \cup {"-n", "-h", "--help", "--all"}) = {}
  /\ Word \cap {"-n", "-h", "--help", "--all"} = {}

VARIABLES
  program, argv,    \* argv without the name of the program
  pc, idx,
  want, seen,       \* the letters of want_u, ... and seen_u, ...
  used_all, used_n,
  n,
  msg,              \* msg_u, msg_s, msg_i where have_msg_u, ...
  printed,          \* the ids of print_log_by_id
  sent              \* the requests main asks proccess_test or run_parallel_tests for

options == <<want, seen, used_all, used_n, n, msg>>
vars == <<program, argv, pc, idx, options, printed, sent>>

Init ==
  /\ program \in Program
  /\ argv \in SeqOf(Token, MaxArgs)
  /\ pc = "command" /\ idx = 1
  /\ want = {} /\ seen = {} /\ used_all = FALSE /\ used_n = FALSE
  /\ n = N_ITERATIONS
  /\ msg = << >>
  /\ printed = << >> /\ sent = << >>

GoTo(a) == pc' = a /\ UNCHANGED <<program, argv, idx, options, printed, sent>>

\* init_db, which every command and every test needs.
InitDb(a) ==
  \/ GoTo(a)
  \/ GoTo("sqlite_error")

-----------------------------------------------------------------------------
(* get and export *)

Named(a) == argv # << >> /\ argv[1] = a

\* With no argument at all, with a command, or with options.
Command ==
  /\ pc = "command"
  /\ \/ argv = << >> /\ GoTo("args_error")
     \/ Named("get") /\ IF Len(argv) = 1 THEN GoTo("args_error") ELSE InitDb("get")
     \/ Named("export") /\ IF Len(argv) > 1 THEN GoTo("args_error") ELSE InitDb("success")
     \/ argv # << >> /\ ~Named("get") /\ ~Named("export") /\ GoTo("options")

\* One round of the loop over the ids, or its end.  What came before an error is printed.
Get ==
  /\ pc = "get"
  /\ IF idx = Len(argv) THEN GoTo("success")
     ELSE LET arg == argv[idx + 1] IN
       IF ~(arg \in DOMAIN Number /\ Number[arg] >= 0) THEN GoTo("args_error")
       ELSE /\ printed' = Append(printed, Number[arg] % IdRange)
            /\ idx' = idx + 1
            /\ UNCHANGED <<program, argv, pc, options, sent>>

-----------------------------------------------------------------------------
(* The loop over the options *)

Arg == argv[idx]
More == pc = "options" /\ idx <= Len(argv)

\* Is the next argument a message?
NextIsMsg == idx < Len(argv) /\ argv[idx + 1] \in Word

Help ==
  /\ More /\ Arg \in {"-h", "--help"}
  /\ GoTo("success")

\* Mutant: the letters are not marked as seen.
AllUnseen ==
  /\ More /\ Arg = "--all"
  /\ IF used_all THEN GoTo("args_error")
     ELSE /\ used_all' = TRUE /\ want' = Letter /\ UNCHANGED seen
          /\ IF NextIsMsg
             THEN msg' = [l \in Communication |-> argv[idx + 1]] /\ idx' = idx + 2
             ELSE idx' = idx + 1 /\ UNCHANGED msg
          /\ UNCHANGED <<program, argv, pc, used_n, n, printed, sent>>

All ==
  /\ More /\ Arg = "--all"
  /\ IF used_all THEN GoTo("args_error")
     ELSE /\ used_all' = TRUE /\ want' = Letter /\ seen' = Letter
          /\ IF NextIsMsg
             THEN msg' = [l \in Communication |-> argv[idx + 1]] /\ idx' = idx + 2
             ELSE idx' = idx + 1 /\ UNCHANGED msg
          /\ UNCHANGED <<program, argv, pc, used_n, n, printed, sent>>

\* Mutant: the value is stored before its range is looked at.
IterationsUnchecked ==
  /\ More /\ Arg = "-n"
  /\ IF used_n \/ idx = Len(argv) \/ (idx < Len(argv) /\ argv[idx + 1] \notin DOMAIN Number) THEN GoTo("args_error")
     ELSE /\ n' = Number[argv[idx + 1]] /\ used_n' = TRUE
          /\ idx' = idx + 2
          /\ UNCHANGED <<program, argv, pc, want, seen, used_all, msg, printed, sent>>

Iterations ==
  /\ More /\ Arg = "-n"
  /\ IF used_n \/ ~(idx < Len(argv) /\ argv[idx + 1] \in DOMAIN Number /\ Number[argv[idx + 1]] \in Byte)
     THEN GoTo("args_error")
     ELSE /\ n' = Number[argv[idx + 1]] /\ used_n' = TRUE
          /\ idx' = idx + 2
          /\ UNCHANGED <<program, argv, pc, want, seen, used_all, msg, printed, sent>>

\* A letter that is unknown, or that was seen before, in this stack or in an earlier one.
BadStack(letters) == \/ ~(ToSet(letters) \subseteq Letter \ seen)
                     \/ ~IsInjective(letters)

\* Mutant: the message goes to every test that takes one.
StackAll ==
  /\ More /\ Arg \in DOMAIN Stack
  /\ LET letters == Stack[Arg] IN
     IF BadStack(letters) \/ (NextIsMsg /\ ToSet(letters) \cap {"a", "t"} # {}) THEN GoTo("args_error")
     ELSE /\ seen' = seen \cup ToSet(letters) /\ want' = want \cup ToSet(letters)
          /\ IF NextIsMsg
             THEN msg' = [l \in Communication |-> argv[idx + 1]] /\ idx' = idx + 2
             ELSE idx' = idx + 1 /\ UNCHANGED msg
          /\ UNCHANGED <<program, argv, pc, used_all, used_n, n, printed, sent>>

StackedFlags ==
  /\ More /\ Arg \in DOMAIN Stack
  /\ LET letters == Stack[Arg] IN
     IF BadStack(letters) \/ (NextIsMsg /\ ToSet(letters) \cap {"a", "t"} # {}) THEN GoTo("args_error")
     ELSE /\ seen' = seen \cup ToSet(letters) /\ want' = want \cup ToSet(letters)
          /\ IF NextIsMsg
             THEN /\ msg' = [l \in ToSet(letters) \cup DOMAIN msg |->
                               IF l \in ToSet(letters) THEN argv[idx + 1] ELSE msg[l]]
                  /\ idx' = idx + 2
             ELSE idx' = idx + 1 /\ UNCHANGED msg
          /\ UNCHANGED <<program, argv, pc, used_all, used_n, n, printed, sent>>

\* Mutant: only what has a dash is refused.
UnexpectedDash ==
  /\ More /\ Arg \notin DOMAIN Stack \cup {"-h", "--help", "--all", "-n"} \cup Word
  /\ GoTo("args_error")

Unexpected ==
  /\ More /\ Arg \notin DOMAIN Stack \cup {"-h", "--help", "--all", "-n"}
  /\ GoTo("args_error")

-----------------------------------------------------------------------------
(* After the loop *)

\* The socket and the database are opened if any test is wanted.
Parsed ==
  /\ pc = "options" /\ idx > Len(argv)
  /\ IF want = {} THEN GoTo("args_error")
     ELSE InitDb("run") \/ GoTo("udp_error")

Message(l) == IF l \in DOMAIN msg THEN msg[l] ELSE Default[l]

\* The tests that hw_tester has not come to.
Pending == want \ UNION {sent[k].tests : k \in DOMAIN sent}

\* hw_tester: one request after the other.
Request(l) == [tests |-> {l}, n_iter |-> n,
               payload |-> IF l \in Communication THEN Message(l) ELSE NoMessage]

RunSingle ==
  /\ pc = "run" /\ program = "hw_tester"
  /\ IF Pending = {} THEN GoTo("success")
     ELSE /\ sent' = Append(sent, Request(First(Pending)))
          /\ UNCHANGED <<program, argv, pc, idx, options, printed>>

\* mthw_tester: one request for all tests, with one message.
SharedMsg == IF want \cap DOMAIN msg = {} THEN Default["u"] ELSE Message(First(want))

RunMulti ==
  /\ pc = "run" /\ program = "mthw_tester"
  /\ sent' = <<[tests |-> want, n_iter |-> n, payload |-> SharedMsg]>>
  /\ pc' = "success"
  /\ UNCHANGED <<program, argv, idx, options, printed>>

Next ==
  \/ Command \/ Get
  \/ Help \/ All \/ Iterations \/ StackedFlags \/ Unexpected
  \/ Parsed \/ RunSingle \/ RunMulti

Spec == Init /\ [][Next]_vars
FairSpec == Spec /\ WF_vars(Next)

-----------------------------------------------------------------------------
(* The rules of the documentation (single_threaded/README.md:113-125) *)

IsCommand == Named("get") \/ Named("export")
Positions == DOMAIN argv

\* An argument is the number of a -n before it, or else a message, or else an option.
Role[k \in Positions] ==
  IF k > 1 /\ Role[k - 1] = "option" /\ argv[k - 1] = "-n" THEN "number"
  ELSE IF argv[k] \in Word THEN "message" ELSE "option"

Options == {k \in Positions : Role[k] = "option"}
Letters(k) == IF argv[k] = "--all" THEN Letter
              ELSE IF argv[k] \in DOMAIN Stack THEN ToSet(Stack[argv[k]]) ELSE {}

\* "Each flag can only appear once": --all stands for the flags that are not there yet.
Repeats(k) ==
  \/ argv[k] \in DOMAIN Stack /\ ~IsInjective(Stack[argv[k]])
  \/ \E j \in Options : /\ j < k
                        /\ \/ argv[j] = argv[k]
                           \/ argv[k] # "--all" /\ Letters(j) \cap Letters(k) # {}

\* "Flags a and t cannot accept messages", nor does any argument that is no test.
Forbidden(k) ==
  Role[k] = "message" =>
    ~(k > 1 /\ k - 1 \in Options /\ Letters(k - 1) # {}
       /\ (argv[k - 1] = "--all" \/ Letters(k - 1) \cap {"a", "t"} = {}))

\* "Number of iterations must be between 0-255".
BadNumber(k) == ~(argv[k] \in DOMAIN Number /\ Number[argv[k]] \in Byte)

Wrong(k) ==
  CASE Role[k] = "message" -> Forbidden(k)
    [] Role[k] = "number" -> BadNumber(k)
    [] OTHER -> \/ argv[k] \notin DOMAIN Stack \cup {"--all", "-n", "-h", "--help"}
                \/ ~(Letters(k) \subseteq Letter)
                \/ Repeats(k)
                \/ argv[k] = "-n" /\ k = Len(argv)

Helped == \E k \in Options : argv[k] \in {"-h", "--help"} /\ \A j \in Positions : j < k => ~Wrong(j)
Wanted == UNION {Letters(k) : k \in Options}
Legal == Wanted # {} /\ \A k \in Positions : ~Wrong(k)

\* The message of l: that of the last flag that names l and has one.
Given(l) == {k \in Options : l \in Letters(k) /\ k < Len(argv) /\ Role[k + 1] = "message"}
Promised(l) ==
  IF Given(l) = {} THEN Default[l]
  ELSE argv[(CHOOSE k \in Given(l) : \A j \in Given(l) : j <= k) + 1]
PromisedIterations ==
  IF \E k \in Options : argv[k] = "-n"
  THEN Number[argv[(CHOOSE k \in Options : argv[k] = "-n") + 1]] ELSE N_ITERATIONS

-----------------------------------------------------------------------------
TypeOK ==
  /\ program \in Program /\ argv \in Seq(Token)
  /\ pc \in {"command", "get", "options", "run", "success", "args_error", "sqlite_error", "udp_error"}
  /\ idx \in 1..Len(argv) + 1
  /\ want \subseteq Letter /\ seen \subseteq Letter
  /\ {used_all, used_n} \subseteq BOOLEAN
  /\ n \in Byte
  /\ DOMAIN msg \subseteq Communication
  /\ printed \in Seq(0..IdRange - 1)

\* The parser refuses exactly the command lines that break a rule, wherever in the line it is
\* broken, and it sends nothing then; before the first broken rule -h asks for help.
FollowsTheRules ==
  ~IsCommand =>
    /\ pc = "args_error" => ~Legal /\ ~Helped /\ sent = << >>
    /\ pc \in {"run", "udp_error", "sqlite_error"} => Legal /\ ~Helped
    /\ pc = "success" => IF Helped THEN sent = << >> ELSE Legal /\ sent # << >>

\* get has printed the tests it is asked for in their order, up to the first argument that is no id.
PrintsTheAsked ==
  Named("get") =>
    /\ \A k \in DOMAIN printed : printed[k] = Number[argv[k + 1]] % IdRange
    /\ pc = "success" => Len(printed) = Len(argv) - 1
    /\ pc \in {"success", "get"} => \A k \in DOMAIN printed : Number[argv[k + 1]] >= 0

\* A run has tested what its command line asks for, with the iterations it asks for, each
\* peripheral once; hw_tester sends each test the message given for it.  mthw_tester does so too
\* when all tests that take a message are given the same one.
SendsThePromised ==
  (pc = "success" /\ sent # << >>) =>
    /\ UNION {sent[k].tests : k \in DOMAIN sent} = Wanted
    /\ \A k \in DOMAIN sent :
         /\ sent[k].n_iter = PromisedIterations
         /\ \A j \in DOMAIN sent : j # k => sent[j].tests \cap sent[k].tests = {}
         /\ \A l \in sent[k].tests \cap Communication :
              (program = "hw_tester" \/
                 \E m \in Word : \A j \in Wanted \cap Communication : Given(j) # {} /\ Promised(j) = m)
              => sent[k].payload = Promised(l)

\* What a legal command line asks for is what is done, be it to test or to print.
DoesThePromised == SendsThePromised /\ PrintsTheAsked

\* Every command line is dealt with: no argument is looked at for ever.
EveryLineEnds == <>(pc \in {"success", "args_error", "sqlite_error", "udp_error"})

\* Each test is run with the message that is given for it.  src/README.md:118 says so of
\* mthw_verif -uit -s "SPI".
OwnMessage ==
  (pc = "success" /\ sent # << >>) =>
    \A k \in DOMAIN sent : \A l \in sent[k].tests \cap Communication :
      Given(l) # {} => sent[k].payload = Promised(l)
=============================================================================
