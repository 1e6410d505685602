------------------------------ MODULE ArgParserProofs ------------------------------
(***************************************************************************)
(* Theorems about ArgParser, for every command line: any arguments, any    *)
(* number of them, any stacks of letters.                                  *)
(***************************************************************************)
EXTENDS ArgParser, WellFoundedInduction, TLAPS

-----------------------------------------------------------------------------
(* The roles of the arguments *)

\* A set of numbers that has 0 and with every number the next has them all: a least one it
\* lacks would be neither 0 nor the next of another.
LEMMA AllNumbers ==
  ASSUME NEW S \in SUBSET Nat, 0 \in S, \A m \in S : m + 1 \in S PROVE S = Nat
<1> DEFINE R == OpToRel(<, Nat)
           Missing == Nat \ S
<1>1. IsWellFoundedOn(R, Nat)
  BY NatLessThanWellFounded
<1>2. \A x, y \in Nat : x < y => <<x, y>> \in R
  BY DEF OpToRel
<1> SUFFICES ASSUME Missing # {} PROVE FALSE
  OBVIOUS
<1> HIDE DEF R
<1>3. PICK x \in Missing : \A y \in Missing : ~(<<y, x>> \in R)
  BY <1>1, WFMin
<1>4. x # 0 /\ x \in Nat /\ x \notin S
  OBVIOUS
<1>5. x - 1 \in Nat /\ x - 1 < x /\ (x - 1) + 1 = x
  BY <1>4
<1>6. x - 1 \in S
  BY <1>2, <1>3, <1>5
<1> QED BY <1>4, <1>5, <1>6

\* The role of argument k, given those of the arguments before it.
RoleIn(r, k) ==
  IF k > 1 /\ r[k - 1] = "option" /\ argv[k - 1] = "-n" THEN "number"
  ELSE IF argv[k] \in Word THEN "message" ELSE "option"

\* The recursive definition of Role defines a function, however long the line.
LEMMA RoleExists ==
  \A m \in Nat : \E r : r = [k \in 1..m |-> RoleIn(r, k)]
<1> DEFINE S == {m \in Nat : \E r : r = [k \in 1..m |-> RoleIn(r, k)]}
<1>1. 0 \in S
  <2> DEFINE r == [k \in 1..0 |-> "option"]
  <2>1. r = [k \in 1..0 |-> RoleIn(r, k)]
    BY \A k : k \notin 1..0
  <2> QED BY <2>1
<1>2. ASSUME NEW m \in S PROVE m + 1 \in S
  <2>1. m \in Nat /\ m + 1 \in Nat
    OBVIOUS
  <2>2. PICK r : r = [k \in 1..m |-> RoleIn(r, k)]
    OBVIOUS
  <2> DEFINE s == [k \in 1..(m + 1) |-> IF k \in 1..m THEN r[k] ELSE RoleIn(r, k)]
  <2>3. ASSUME NEW k \in 1..(m + 1) PROVE s[k] = RoleIn(s, k)
    <3>1. s[k] = RoleIn(r, k)
      BY <2>2
    <3>2. k > 1 => k - 1 \in 1..m /\ s[k - 1] = r[k - 1]
      BY <2>1
    <3> HIDE DEF s
    <3> QED BY <3>1, <3>2 DEF RoleIn
  <2>4. s = [k \in 1..(m + 1) |-> s[k]]
    OBVIOUS
  <2>5. [k \in 1..(m + 1) |-> s[k]] = [k \in 1..(m + 1) |-> RoleIn(s, k)]
    BY <2>3, Zenon
  <2> HIDE DEF s
  <2> QED BY <2>1, <2>4, <2>5
<1> HIDE DEF S
<1>3. S = Nat
  BY <1>1, <1>2, AllNumbers DEF S
<1> QED BY <1>3 DEF S

\* What the role of each argument is.
LEMMA RoleDef ==
  ASSUME argv \in Seq(Token)
  PROVE  \A k \in Positions : Role[k] = RoleIn(Role, k)
<1>1. \E r : r = [k \in Positions |-> RoleIn(r, k)]
  <2>1. Positions = 1..Len(argv) /\ Len(argv) \in Nat
    BY DEF Positions
  <2> QED BY <2>1, RoleExists
<1>2. Role = CHOOSE r : r = [k \in Positions |-> RoleIn(r, k)]
  BY DEF Role, RoleIn
<1>3. Role = [k \in Positions |-> RoleIn(Role, k)]
  BY <1>1, <1>2
<1> QED BY <1>3, Zenon

-----------------------------------------------------------------------------
(* The inductive invariant.  The loop has no memory of the arguments behind it but the   *)
(* options it has collected, so the invariant says what those stand for.                 *)

\* The options behind idx.
Past == {k \in Options : k < idx}

\* No rule is broken and no help asked for behind idx.
Clean ==
  /\ \A k \in Positions : k < idx => ~Wrong(k)
  /\ \A k \in Past : argv[k] \notin {"-h", "--help"}

\* idx is not at the number of a -n, nor at a message that the option before it takes.
Boundary ==
  idx > 1 /\ idx <= Len(argv) /\ idx - 1 \in Options
    => argv[idx - 1] # "-n" /\ argv[idx] \notin Word

\* The variables of main are what the options behind idx ask for, the last message of a
\* flag included.
Collected ==
  /\ want = UNION {Letters(k) : k \in Past} /\ seen = want
  /\ used_all <=> \E k \in Past : argv[k] = "--all"
  /\ used_n <=> \E k \in Past : argv[k] = "-n"
  /\ used_n \/ n = N_ITERATIONS
  /\ \A k \in Past : argv[k] = "-n" => k < Len(argv) /\ n = Number[argv[k + 1]]
  /\ DOMAIN msg = {l \in Communication : \E k \in Given(l) : k + 1 < idx}
  /\ \A l \in DOMAIN msg : \E k \in Given(l) :
       /\ k + 1 < idx /\ msg[l] = argv[k + 1]
       /\ \A j \in Given(l) : j + 1 < idx => j <= k

\* The command line is parsed, and its requests are being sent or are sent.
Accepted == pc \in {"run", "udp_error", "sqlite_error"} \/ (pc = "success" /\ sent # << >>)

\* What a request may be.
Payloads == Token \cup {NoMessage} \cup {Default[l] : l \in Communication}
Requests == [tests : SUBSET Letter, n_iter : Byte, payload : Payloads]

\* How far a command line with options is looked at, and what is known of it then.
ParseInv ==
  ~IsCommand =>
    /\ pc # "get"
    /\ pc = "command" => idx = 1
    /\ pc \in {"command", "options"} =>
         Clean /\ Boundary /\ Collected /\ sent = << >>
    /\ Accepted => Clean /\ Collected /\ idx = Len(argv) + 1 /\ want # {}
    /\ pc = "args_error" => ~Legal /\ ~Helped /\ sent = << >>
    /\ pc = "success" /\ sent = << >> => Helped

\* What hw_tester has sent is for tests that are wanted, each once; in the end it is all of
\* it.  What mthw_tester sends is one request for all.
SentInv ==
  ~IsCommand /\ Accepted =>
    /\ sent \in Seq(Requests)
    /\ program = "hw_tester" =>
         /\ \A k \in DOMAIN sent : \E l \in want : sent[k] = Request(l)
         /\ \A j, k \in DOMAIN sent : j # k => sent[j].tests \cap sent[k].tests = {}
         /\ pc = "success" => Pending = {}
    /\ program = "mthw_tester" =>
         IF pc = "success"
         THEN sent = <<[tests |-> want, n_iter |-> n, payload |-> SharedMsg]>>
         ELSE sent = << >>

\* get has printed the ids behind idx.
CommandInv ==
  IsCommand =>
    /\ pc \in {"command", "get", "success", "args_error", "sqlite_error"}
    /\ sent = << >>
    /\ pc = "command" => printed = << >>
    /\ pc = "get" => Named("get")
    /\ Named("get") =>
         /\ Len(printed) = idx - 1 /\ idx <= Len(argv)
         /\ pc = "success" => idx = Len(argv)
         /\ \A k \in DOMAIN printed : /\ printed[k] = Number[argv[k + 1]] % IdRange
                                      /\ Number[argv[k + 1]] >= 0

IInv == TypeOK /\ ParseInv /\ SentInv /\ CommandInv

-----------------------------------------------------------------------------
(* The rules, argument by argument *)

\* The line does not change, nor does what the rules say of it.
LEMMA LineSame ==
  ASSUME argv' = argv
  PROVE  /\ Role' = Role /\ Positions' = Positions /\ Options' = Options
         /\ \A k : Letters(k)' = Letters(k)
         /\ \A l : Given(l)' = Given(l)
         /\ \A k : Wrong(k)' <=> Wrong(k)
         /\ Helped' <=> Helped
         /\ Legal' <=> Legal
         /\ IsCommand' <=> IsCommand
         /\ Named("get")' <=> Named("get")
<1>1. Role' = Role
  BY DEF Role, Positions
<1>2. Positions' = Positions
  BY DEF Positions
<1>3. Options' = Options
  BY <1>1, <1>2 DEF Options
<1>4. \A k : Letters(k)' = Letters(k)
  BY DEF Letters
<1>5. \A l : Given(l)' = Given(l)
  BY <1>1, <1>3, <1>4 DEF Given
<1>6. \A k : Wrong(k)' <=> Wrong(k)
  BY <1>1, <1>3, <1>4 DEF Wrong, Repeats, Forbidden, BadNumber
<1>7. Helped' <=> Helped
  BY <1>2, <1>3, <1>6 DEF Helped
<1>8. Legal' <=> Legal
  BY <1>2, <1>3, <1>4, <1>6 DEF Legal, Wanted
<1>9. (IsCommand' <=> IsCommand) /\ (Named("get")' <=> Named("get"))
  BY DEF IsCommand, Named
<1> QED BY <1>1, <1>2, <1>3, <1>4, <1>5, <1>6, <1>7, <1>8, <1>9

\* The three roles.
LEMMA Roles ==
  ASSUME TypeOK, NEW k \in Positions
  PROVE  /\ k \in Nat /\ 1 <= k /\ k <= Len(argv)
         /\ k \in Options <=> Role[k] = "option"
         /\ Role[k] = "number" <=> k > 1 /\ k - 1 \in Options /\ argv[k - 1] = "-n"
         /\ Role[k] = "message" <=> Role[k] # "number" /\ argv[k] \in Word
         /\ Role[k] = "option" <=> Role[k] # "number" /\ argv[k] \notin Word
<1>1. argv \in Seq(Token)
  BY DEF TypeOK
<1>2. Role[k] = RoleIn(Role, k)
  BY <1>1, RoleDef
<1>3. k \in Nat /\ 1 <= k /\ k <= Len(argv) /\ (k > 1 => k - 1 \in Positions)
  BY <1>1 DEF Positions
<1>4. k \in Options <=> Role[k] = "option"
  BY DEF Options
<1>5. k > 1 => (k - 1 \in Options <=> Role[k - 1] = "option")
  BY <1>3 DEF Options
<1> QED BY <1>2, <1>3, <1>4, <1>5 DEF RoleIn

\* The argument at idx, and the one after it.
LEMMA Here ==
  ASSUME TypeOK, Boundary, idx <= Len(argv)
  PROVE  /\ idx \in Positions
         /\ Role[idx] # "number"
         /\ idx \in Options <=> Arg \notin Word
         /\ Arg \in Word => Role[idx] = "message" /\ (idx > 1 => idx - 1 \notin Options)
<1>1. argv \in Seq(Token) /\ Len(argv) \in Nat /\ idx \in 1..Len(argv) + 1
  BY DEF TypeOK
<1>2. idx \in Positions
  BY <1>1 DEF Positions
<1> QED BY <1>2, Roles DEF Boundary, Arg

\* The role of the argument after an option.
LEMMA After ==
  ASSUME TypeOK, idx \in Options, idx < Len(argv)
  PROVE  /\ idx + 1 \in Positions /\ (idx + 1) - 1 = idx
         /\ Arg = "-n" => Role[idx + 1] = "number"
         /\ Arg # "-n" /\ argv[idx + 1] \in Word => Role[idx + 1] = "message"
<1>1. argv \in Seq(Token) /\ Len(argv) \in Nat /\ idx \in 1..Len(argv) + 1
  BY DEF TypeOK
<1>2. idx + 1 \in Positions /\ (idx + 1) - 1 = idx /\ idx + 1 > 1
  BY <1>1 DEF Positions
<1> HIDE DEF Options
<1> QED BY <1>2, Roles DEF Arg

\* When an option is wrong.
LEMMA WrongOption ==
  ASSUME NEW k \in Options
  PROVE  Wrong(k) <=> \/ argv[k] \notin DOMAIN Stack \cup {"--all", "-n", "-h", "--help"}
                      \/ ~(Letters(k) \subseteq Letter)
                      \/ Repeats(k)
                      \/ argv[k] = "-n" /\ k = Len(argv)
<1>1. Role[k] = "option"
  BY DEF Options
<1> QED BY <1>1 DEF Wrong

\* When a message is wrong, and when a number is.
LEMMA WrongOther ==
  ASSUME NEW k
  PROVE  /\ Role[k] = "number" => (Wrong(k) <=> BadNumber(k))
         /\ Role[k] = "message" =>
              (Wrong(k) <=> ~(k > 1 /\ k - 1 \in Options /\ Letters(k - 1) # {}
                  /\ (argv[k - 1] = "--all" \/ Letters(k - 1) \cap {"a", "t"} = {})))
BY DEF Wrong, Forbidden

\* A line with a wrong argument is neither legal nor one that asks for help, if nothing
\* before that argument asks for it.
LEMMA Refused ==
  ASSUME TypeOK, NEW e \in Positions, Wrong(e),
         \A k \in Options : k <= e => argv[k] \notin {"-h", "--help"}
  PROVE  ~Legal /\ ~Helped
<1>1. ~Legal
  BY DEF Legal
<1>2. ASSUME Helped PROVE FALSE
  <2>1. PICK k \in Options : argv[k] \in {"-h", "--help"} /\ \A j \in Positions : j < k => ~Wrong(j)
    BY <1>2 DEF Helped
  <2>2. k \in Nat /\ e \in Nat
    BY Roles DEF Options
  <2> QED BY <2>1, <2>2
<1> QED BY <1>1, <1>2

\* The error is at idx, or right behind it.
LEMMA RefusedHere ==
  ASSUME TypeOK, Clean, Boundary, idx <= Len(argv), Arg \notin {"-h", "--help"},
         \/ Wrong(idx)
         \/ idx < Len(argv) /\ Wrong(idx + 1) /\ idx + 1 \notin Options
  PROVE  ~Legal /\ ~Helped
<1>1. /\ idx \in Nat /\ idx \in Positions
      /\ \A k \in Options : k \in Nat
  BY Here, Roles DEF Options
<1>2. \A k \in Options : k <= idx => argv[k] \notin {"-h", "--help"}
  BY <1>1 DEF Clean, Past, Arg
<1>3. CASE Wrong(idx)
  BY <1>1, <1>2, <1>3, Refused
<1>4. CASE idx < Len(argv) /\ Wrong(idx + 1) /\ idx + 1 \notin Options
  <2>1. idx + 1 \in Positions
    BY <1>1, <1>4 DEF Positions, TypeOK
  <2>2. \A k \in Options : k <= idx + 1 => k <= idx
    BY <1>1, <1>4
  <2> QED BY <1>2, <1>4, <2>1, <2>2, Refused
<1> QED BY <1>3, <1>4

-----------------------------------------------------------------------------
(* Going on to the next option *)

\* Past an option that takes no further argument.
LEMMA PastOne ==
  ASSUME TypeOK, Clean, idx \in Options, ~Wrong(idx), Arg \notin {"-h", "--help", "-n"},
         ~NextIsMsg, argv' = argv, idx' = idx + 1
  PROVE  /\ Clean' /\ Boundary'
         /\ Past' = Past \cup {idx}
         /\ \A l : \A k \in Given(l) : k + 1 < idx' <=> k + 1 < idx
<1>1. /\ \A k \in Positions : k \in Nat /\ 1 <= k /\ k <= Len(argv)
      /\ \A k \in Options : k \in Positions
      /\ Len(argv) \in Nat
  BY Roles DEF Options, TypeOK
<1>2. /\ Options' = Options /\ Positions' = Positions
      /\ \A k : Wrong(k)' <=> Wrong(k)
  BY LineSame
<1>3. Past' = Past \cup {idx}
  BY <1>1, <1>2 DEF Past
<1>4. Clean'
  BY <1>1, <1>2, <1>3 DEF Clean, Arg
<1>5. Boundary'
  BY <1>1, <1>2 DEF Boundary, Arg, NextIsMsg
<1>6. ASSUME NEW l, NEW k \in Given(l) PROVE k + 1 < idx' <=> k + 1 < idx
  <2>1. k \in Options /\ k < Len(argv) /\ Role[k + 1] = "message"
    BY DEF Given
  <2>2. k + 1 # idx
    BY <2>1 DEF Options
  <2> QED BY <1>1, <2>1, <2>2
<1> QED BY <1>3, <1>4, <1>5, <1>6

\* Past an option and the argument that it takes.
LEMMA PastTwo ==
  ASSUME TypeOK, Clean, idx \in Options, ~Wrong(idx), Arg \notin {"-h", "--help"},
         idx < Len(argv), idx + 1 \notin Options, ~Wrong(idx + 1), argv' = argv, idx' = idx + 2
  PROVE  /\ Clean' /\ Boundary'
         /\ Past' = Past \cup {idx}
         /\ \A l : \A k \in Given(l) : k + 1 < idx' <=> (k + 1 < idx \/ k = idx)
<1>1. /\ \A k \in Positions : k \in Nat /\ 1 <= k /\ k <= Len(argv)
      /\ \A k \in Options : k \in Positions
      /\ Len(argv) \in Nat
  BY Roles DEF Options, TypeOK
<1>2. /\ Options' = Options /\ Positions' = Positions
      /\ \A k : Wrong(k)' <=> Wrong(k)
  BY LineSame
<1>3. Past' = Past \cup {idx}
  <2>1. \A k \in Options : k < idx + 2 <=> k < idx \/ k = idx
    BY <1>1
  <2> QED BY <1>2, <2>1 DEF Past
<1>4. Clean'
  <2>1. \A k \in Positions : k < idx + 2 => k < idx \/ k = idx \/ k = idx + 1
    BY <1>1
  <2> QED BY <1>2, <1>3, <2>1 DEF Clean, Arg
<1>5. Boundary'
  <2>1. (idx + 2) - 1 = idx + 1
    BY <1>1
  <2> QED BY <1>2, <2>1 DEF Boundary
<1>6. ASSUME NEW l, NEW k \in Given(l) PROVE k + 1 < idx' <=> (k + 1 < idx \/ k = idx)
  <2>1. k \in Options /\ k < Len(argv) /\ Role[k + 1] = "message"
    BY DEF Given
  <2>2. k + 1 # idx
    BY <2>1 DEF Options
  <2> QED BY <1>1, <2>1, <2>2
<1> QED BY <1>3, <1>4, <1>5, <1>6

\* What -u, ... or --all adds: its letters, and its message for those of them that take one.
LEMMA CollectFlags ==
  ASSUME TypeOK, Clean, Boundary, Collected, idx \in Options, ~Wrong(idx),
         Arg \in DOMAIN Stack \cup {"--all"},
         UNCHANGED <<argv, n, used_n>>,
         want' = want \cup Letters(idx), seen' = want',
         used_all' <=> (used_all \/ Arg = "--all"),
         IF NextIsMsg
         THEN /\ ~Wrong(idx + 1) /\ idx' = idx + 2
              /\ msg' = [l \in (Letters(idx) \cap Communication) \cup DOMAIN msg |->
                            IF l \in Letters(idx) THEN argv[idx + 1] ELSE msg[l]]
         ELSE idx' = idx + 1 /\ msg' = msg
  PROVE  Clean' /\ Boundary' /\ Collected'
<1>0. /\ Arg \notin {"-n", "-h", "--help"}
      /\ idx \in Nat /\ \A k \in Options : k \in Nat
  BY TokenAssumption, Roles DEF Options
<1>1. NextIsMsg => /\ idx < Len(argv) /\ Role[idx + 1] = "message"
                   /\ idx + 1 \notin Options
  BY <1>0, After DEF NextIsMsg, Options
<1>2. /\ Clean' /\ Boundary'
      /\ Past' = Past \cup {idx}
      /\ \A l : \A k \in Given(l) : k + 1 < idx' <=> (k + 1 < idx \/ (NextIsMsg /\ k = idx))
  BY <1>0, <1>1, PastOne, PastTwo
<1>3. /\ Options' = Options
      /\ \A k : Letters(k)' = Letters(k)
      /\ \A l : Given(l)' = Given(l)
  BY LineSame
<1>4. want' = UNION {Letters(k) : k \in Past'}
  BY <1>2 DEF Collected
<1>5. /\ used_all' <=> \E k \in Past' : argv[k] = "--all"
      /\ used_n' <=> \E k \in Past' : argv[k] = "-n"
      /\ used_n' \/ n' = N_ITERATIONS
      /\ \A k \in Past' : argv[k] = "-n" => k < Len(argv) /\ n' = Number[argv[k + 1]]
  BY <1>0, <1>2 DEF Collected, Arg
<1>6. ASSUME NextIsMsg, NEW l PROVE idx \in Given(l) <=> l \in Letters(idx)
  BY <1>1, <1>6 DEF Given
<1>7. DOMAIN msg' = {l \in Communication : \E k \in Given(l) : k + 1 < idx'}
  <2>1. CASE NextIsMsg
    <3>1. DOMAIN msg' = (Letters(idx) \cap Communication) \cup DOMAIN msg
      BY <2>1
    <3>2. \A l : (\E k \in Given(l) : k + 1 < idx')
                   <=> ((\E k \in Given(l) : k + 1 < idx) \/ l \in Letters(idx))
      BY <1>2, <1>6, <2>1
    <3> QED BY <3>1, <3>2 DEF Collected
  <2>2. CASE ~NextIsMsg
    BY <1>2, <2>2 DEF Collected
  <2> QED BY <2>1, <2>2
<1>8. ASSUME NEW l \in DOMAIN msg'
      PROVE  \E k \in Given(l) : /\ k + 1 < idx' /\ msg'[l] = argv[k + 1]
                                 /\ \A j \in Given(l) : j + 1 < idx' => j <= k
  <2>0. \A k \in Given(l) : k \in Nat
    BY <1>0 DEF Given
  <2>1. CASE NextIsMsg /\ l \in Letters(idx)
    <3>1. msg'[l] = argv[idx + 1] /\ idx \in Given(l) /\ idx + 1 < idx'
      BY <1>0, <1>6, <2>1
    <3>2. \A j \in Given(l) : j + 1 < idx' => j <= idx
      BY <1>0, <1>2, <2>0
    <3> QED BY <3>1, <3>2
  <2>2. CASE NextIsMsg /\ l \notin Letters(idx)
    <3>1. l \in DOMAIN msg /\ msg'[l] = msg[l] /\ idx \notin Given(l)
      BY <1>6, <2>2
    <3> QED BY <3>1, <1>2 DEF Collected
  <2>3. CASE ~NextIsMsg
    BY <1>2, <2>3 DEF Collected
  <2> QED BY <2>1, <2>2, <2>3
<1> QED BY <1>2, <1>3, <1>4, <1>5, <1>7, <1>8 DEF Collected

\* What -n adds: its number.
LEMMA CollectIterations ==
  ASSUME TypeOK, Clean, Boundary, Collected, idx \in Options, ~Wrong(idx), Arg = "-n",
         idx < Len(argv), ~Wrong(idx + 1),
         UNCHANGED <<argv, want, seen, used_all, msg>>,
         used_n' = TRUE, n' = Number[argv[idx + 1]], idx' = idx + 2, ~used_n
  PROVE  Clean' /\ Boundary' /\ Collected'
<1>0. idx \in Nat /\ \A k \in Options : k \in Nat
  BY Roles DEF Options
<1>1. Role[idx + 1] = "number" /\ idx + 1 \notin Options
  BY After DEF Options
<1>2. /\ Clean' /\ Boundary'
      /\ Past' = Past \cup {idx}
      /\ \A l : \A k \in Given(l) : k + 1 < idx' <=> (k + 1 < idx \/ k = idx)
  BY <1>1, PastTwo
<1>3. /\ Options' = Options
      /\ \A k : Letters(k)' = Letters(k)
      /\ \A l : Given(l)' = Given(l)
  BY LineSame
<1>4. Letters(idx) = {} /\ \A l : idx \notin Given(l)
  BY <1>1, TokenAssumption DEF Letters, Given, Arg
<1>5. want' = UNION {Letters(k) : k \in Past'}
  BY <1>2, <1>4 DEF Collected
<1>6. /\ used_all' <=> \E k \in Past' : argv[k] = "--all"
      /\ used_n' <=> \E k \in Past' : argv[k] = "-n"
      /\ \A k \in Past' : argv[k] = "-n" => k < Len(argv) /\ n' = Number[argv[k + 1]]
  BY <1>0, <1>2 DEF Collected, Arg
<1>7. \A l : \A k \in Given(l) : k + 1 < idx' <=> k + 1 < idx
  BY <1>2, <1>4
<1> QED BY <1>2, <1>3, <1>5, <1>6, <1>7 DEF Collected

-----------------------------------------------------------------------------
(* The steps of the loop *)

\* At an argument of the loop.
LEMMA Looking ==
  ASSUME ParseInv, ~IsCommand, More
  PROVE  Clean /\ Boundary /\ Collected /\ sent = << >> /\ idx <= Len(argv)
BY DEF ParseInv, More

\* An error that breaks a rule.
LEMMA ErrorStep ==
  ASSUME ~IsCommand, ~Legal, ~Helped, sent = << >>, GoTo("args_error")
  PROVE  ParseInv'
<1>1. argv' = argv /\ sent' = sent /\ pc' = "args_error"
  BY DEF GoTo
<1>2. (Helped' <=> Helped) /\ (Legal' <=> Legal)
  BY <1>1, LineSame
<1> QED BY <1>1, <1>2 DEF ParseInv, Accepted

\* An option that is taken.
LEMMA TakenStep ==
  ASSUME ~IsCommand, sent = << >>, pc = "options", UNCHANGED <<argv, pc, sent>>,
         Clean' /\ Boundary' /\ Collected'
  PROVE  ParseInv'
BY DEF ParseInv, Accepted

\* -h is reached only if nothing before it is wrong.
LEMMA HelpStep == ASSUME TypeOK, ParseInv, ~IsCommand, Help PROVE ParseInv'
<1>1. Clean /\ Boundary /\ sent = << >> /\ idx <= Len(argv) /\ Arg \in {"-h", "--help"}
  BY Looking DEF Help
<1>2. idx \in Options
  BY <1>1, Here, TokenAssumption
<1>3. Helped
  BY <1>1, <1>2 DEF Helped, Clean, Arg
<1>4. argv' = argv /\ sent' = sent /\ pc' = "success"
  BY DEF Help, GoTo
<1>5. Helped' <=> Helped
  BY <1>4, LineSame
<1> QED BY <1>1, <1>3, <1>4, <1>5 DEF ParseInv, Accepted

\* What is not an option of the programs is wrong.
LEMMA UnexpectedStep == ASSUME TypeOK, ParseInv, ~IsCommand, Unexpected PROVE ParseInv'
<1>1. /\ Clean /\ Boundary /\ sent = << >> /\ idx <= Len(argv)
      /\ Arg \notin DOMAIN Stack \cup {"-h", "--help", "--all", "-n"}
  BY Looking DEF Unexpected
<1>2. CASE Arg \in Word
  <2>1. Role[idx] = "message" /\ (idx > 1 => idx - 1 \notin Options) /\ idx \in Positions
    BY <1>1, <1>2, Here
  <2>2. Wrong(idx)
    BY <2>1, WrongOther
  <2> QED BY <1>1, <2>2, RefusedHere, ErrorStep DEF Unexpected
<1>3. CASE Arg \notin Word
  <2>1. idx \in Options
    BY <1>1, <1>3, Here
  <2>2. Wrong(idx)
    BY <1>1, <2>1, WrongOption DEF Arg
  <2> QED BY <1>1, <2>2, RefusedHere, ErrorStep DEF Unexpected
<1> QED BY <1>2, <1>3

\* --all is refused exactly when it is there twice, and takes any message.
LEMMA AllStep == ASSUME TypeOK, ParseInv, ~IsCommand, All PROVE ParseInv'
<1>1. /\ Clean /\ Boundary /\ Collected /\ sent = << >> /\ idx <= Len(argv)
      /\ Arg = "--all" /\ argv[idx] = "--all" /\ "--all" \notin DOMAIN Stack
  BY Looking, TokenAssumption DEF All, Arg
<1>2. idx \in Options /\ idx \in Nat /\ \A k \in Options : k \in Nat
  BY <1>1, Here, Roles, TokenAssumption DEF Options
<1>3. Letters(idx) = Letter
  BY <1>1 DEF Letters
<1>4. CASE used_all
  <2>1. PICK k \in Past : argv[k] = "--all"
    BY <1>1, <1>4 DEF Collected
  <2>2. Repeats(idx)
    BY <1>1, <2>1 DEF Repeats, Past
  <2>3. Wrong(idx)
    BY <1>2, <2>2, WrongOption
  <2> QED BY <1>1, <1>4, <2>3, RefusedHere, ErrorStep DEF All
<1>5. CASE ~used_all
  <2>1. ~Repeats(idx)
    BY <1>1, <1>5 DEF Repeats, Collected, Past
  <2>2. ~Wrong(idx)
    BY <1>1, <1>2, <1>3, <2>1, WrongOption
  <2>3. NextIsMsg => ~Wrong(idx + 1)
    <3>1. NextIsMsg => /\ Role[idx + 1] = "message" /\ (idx + 1) - 1 = idx /\ idx + 1 > 1
      <4> SUFFICES ASSUME NextIsMsg
                   PROVE  Role[idx + 1] = "message" /\ (idx + 1) - 1 = idx /\ idx + 1 > 1
        OBVIOUS
      <4>1. idx < Len(argv) /\ argv[idx + 1] \in Word
        BY DEF NextIsMsg
      <4>2. Role[idx + 1] = "message" /\ (idx + 1) - 1 = idx
        BY <1>1, <1>2, <4>1, After
      <4>3. idx \in Nat /\ idx >= 1
        BY <1>2, Roles DEF Options
      <4> QED BY <4>2, <4>3
    <3> QED BY <1>1, <1>2, <1>3, <3>1, WrongOther DEF Letter
  <2>4. /\ UNCHANGED <<argv, n, used_n, pc, sent>>
        /\ want' = want \cup Letters(idx) /\ seen' = want' /\ used_all' = TRUE
    BY <1>3, <1>5 DEF All, TypeOK
  <2>5. IF NextIsMsg
        THEN /\ idx' = idx + 2
             /\ msg' = [l \in (Letters(idx) \cap Communication) \cup DOMAIN msg |->
                            IF l \in Letters(idx) THEN argv[idx + 1] ELSE msg[l]]
        ELSE idx' = idx + 1 /\ msg' = msg
    <3>1. (Letters(idx) \cap Communication) \cup DOMAIN msg = Communication
      BY <1>3 DEF TypeOK, Letter, Communication
    <3>2. \A l \in Communication : l \in Letters(idx)
      BY <1>3 DEF Letter, Communication
    <3>3. NextIsMsg => msg' = [l \in Communication |-> argv[idx + 1]] /\ idx' = idx + 2
      BY <1>5 DEF All
    <3>4. ~NextIsMsg => msg' = msg /\ idx' = idx + 1
      BY <1>5 DEF All
    <3> QED BY <3>1, <3>2, <3>3, <3>4
  <2>6. Clean' /\ Boundary' /\ Collected'
    BY <1>1, <1>2, <2>2, <2>3, <2>4, <2>5, CollectFlags
  <2> QED BY <1>1, <2>4, <2>6, TakenStep DEF All, More
<1> QED BY <1>4, <1>5

\* -n is refused exactly when it is there twice, or has no number from 0 to 255.
LEMMA IterationsStep == ASSUME TypeOK, ParseInv, ~IsCommand, Iterations PROVE ParseInv'
<1>1. /\ Clean /\ Boundary /\ Collected /\ sent = << >> /\ idx <= Len(argv)
      /\ Arg = "-n" /\ argv[idx] = "-n" /\ "-n" \notin DOMAIN Stack
  BY Looking, TokenAssumption DEF Iterations, Arg
<1>2. idx \in Options /\ idx \in Nat /\ idx >= 1 /\ \A k \in Options : k \in Nat
  BY <1>1, Here, Roles, TokenAssumption DEF Options
<1>3. Letters(idx) = {}
  BY <1>1 DEF Letters
<1>4. ASSUME idx < Len(argv)
      PROVE  /\ Role[idx + 1] = "number" /\ idx + 1 \notin Options
             /\ Wrong(idx + 1) <=> BadNumber(idx + 1)
  BY <1>1, <1>2, <1>4, After, WrongOther DEF Options
<1>5. Wrong(idx) <=> used_n \/ idx = Len(argv)
  <2>1. ASSUME used_n PROVE Repeats(idx)
    <3>1. PICK k \in Past : argv[k] = "-n"
      BY <1>1, <2>1 DEF Collected
    <3> QED BY <1>1, <3>1 DEF Repeats, Past
  <2>2. ASSUME Repeats(idx) PROVE used_n
    BY <1>1, <1>3, <2>2 DEF Repeats, Collected, Past
  <2> QED BY <1>1, <1>2, <1>3, <2>1, <2>2, WrongOption
<1>6. CASE used_n \/ idx = Len(argv) \/ (idx < Len(argv) /\ BadNumber(idx + 1))
  <2>1. GoTo("args_error")
    BY <1>6 DEF Iterations, BadNumber
  <2>2. ~Legal /\ ~Helped
    BY <1>1, <1>4, <1>5, <1>6, RefusedHere
  <2> QED BY <1>1, <2>1, <2>2, ErrorStep
<1>7. CASE ~used_n /\ idx < Len(argv) /\ ~BadNumber(idx + 1)
  <2>1. /\ UNCHANGED <<argv, want, seen, used_all, msg, pc, sent>>
        /\ used_n' = TRUE /\ n' = Number[argv[idx + 1]] /\ idx' = idx + 2
    BY <1>7 DEF Iterations, BadNumber
  <2>2. ~Wrong(idx) /\ ~Wrong(idx + 1)
    BY <1>2, <1>4, <1>5, <1>7
  <2>3. Clean' /\ Boundary' /\ Collected'
    BY <1>1, <1>2, <1>7, <2>1, <2>2, CollectIterations
  <2> QED BY <1>1, <2>1, <2>3, TakenStep DEF Iterations, More
<1>8. idx = Len(argv) \/ idx < Len(argv)
  BY <1>1, <1>2 DEF TypeOK
<1> QED BY <1>6, <1>7, <1>8

\* A stack is refused exactly when a letter of it is unknown or there twice, or when it has
\* a message that one of its tests cannot take.
LEMMA StackStep == ASSUME TypeOK, ParseInv, ~IsCommand, StackedFlags PROVE ParseInv'
<1>1. /\ Clean /\ Boundary /\ Collected /\ sent = << >> /\ idx <= Len(argv)
      /\ Arg \in DOMAIN Stack /\ argv[idx] = Arg
      /\ Arg \notin {"-h", "--help", "--all", "-n"} /\ Arg \notin Word
  BY Looking, TokenAssumption DEF StackedFlags, Arg
<1>2. idx \in Options /\ idx \in Nat /\ idx >= 1 /\ \A k \in Options : k \in Nat
  BY <1>1, Here, Roles DEF Options
<1> DEFINE letters == ToSet(Stack[Arg])
<1>3. Letters(idx) = letters /\ letters # {}
  <2>1. Letters(idx) = letters
    BY <1>1 DEF Letters
  <2>2. Stack[Arg] \in Seq(STRING) /\ Stack[Arg] # << >>
    BY <1>1, TokenAssumption
  <2>3. 1 \in DOMAIN Stack[Arg]
    BY <2>2
  <2> QED BY <2>1, <2>3 DEF ToSet
<1>4. ASSUME NextIsMsg
      PROVE  /\ idx < Len(argv) /\ idx + 1 \notin Options
             /\ Wrong(idx + 1) <=> letters \cap {"a", "t"} # {}
  <2>1. idx < Len(argv) /\ argv[idx + 1] \in Word
    BY <1>4 DEF NextIsMsg
  <2>2. Role[idx + 1] = "message" /\ (idx + 1) - 1 = idx /\ idx + 1 > 1
    BY <1>1, <1>2, <2>1, After
  <2>3. Wrong(idx + 1) <=> ~(Letters(idx) # {} /\ (argv[idx] = "--all" \/ Letters(idx) \cap {"a", "t"} = {}))
    BY <1>2, <2>2, WrongOther
  <2> QED BY <1>1, <1>3, <2>1, <2>2, <2>3 DEF Options
<1>5. Wrong(idx) <=> BadStack(Stack[Arg])
  <2>1. Repeats(idx) <=> ~IsInjective(Stack[Arg]) \/ letters \cap seen # {}
    <3>1. \A j \in Past : argv[j] = argv[idx] => Letters(j) \cap Letters(idx) # {}
      <4>1. \A j : argv[j] = argv[idx] => Letters(j) = Letters(idx)
        BY DEF Letters
      <4> QED BY <1>3, <4>1
    <3>2. (\E j \in Past : Letters(j) \cap Letters(idx) # {}) <=> letters \cap seen # {}
      BY <1>1, <1>3 DEF Collected
    <3> HIDE DEF letters
    <3> QED BY <1>1, <3>1, <3>2 DEF Repeats, Past
  <2>2. Wrong(idx) <=> ~(letters \subseteq Letter) \/ Repeats(idx)
    BY <1>1, <1>2, <1>3, WrongOption
  <2> QED BY <2>1, <2>2 DEF BadStack
<1>6. CASE BadStack(Stack[Arg]) \/ (NextIsMsg /\ letters \cap {"a", "t"} # {})
  <2>1. GoTo("args_error")
    BY <1>6 DEF StackedFlags
  <2>2. ~Legal /\ ~Helped
    BY <1>1, <1>4, <1>5, <1>6, RefusedHere
  <2> QED BY <1>1, <2>1, <2>2, ErrorStep
<1>7. CASE ~(BadStack(Stack[Arg]) \/ (NextIsMsg /\ letters \cap {"a", "t"} # {}))
  <2>1. /\ UNCHANGED <<argv, n, used_n, used_all, pc, sent>>
        /\ want' = want \cup Letters(idx) /\ seen' = seen \cup Letters(idx)
    BY <1>3, <1>7 DEF StackedFlags
  <2>2. seen' = want'
    BY <1>1, <2>1 DEF Collected
  <2>3. IF NextIsMsg
        THEN /\ idx' = idx + 2
             /\ msg' = [l \in (Letters(idx) \cap Communication) \cup DOMAIN msg |->
                            IF l \in Letters(idx) THEN argv[idx + 1] ELSE msg[l]]
        ELSE idx' = idx + 1 /\ msg' = msg
    <3>1. letters \subseteq Letter
      BY <1>7 DEF BadStack
    <3>2. NextIsMsg => letters \cap Communication = letters
      BY <1>7, <3>1 DEF Letter, Communication
    <3>3. NextIsMsg => /\ msg' = [l \in letters \cup DOMAIN msg |->
                                    IF l \in letters THEN argv[idx + 1] ELSE msg[l]]
                       /\ idx' = idx + 2
      BY <1>7 DEF StackedFlags
    <3>4. ~NextIsMsg => msg' = msg /\ idx' = idx + 1
      BY <1>7 DEF StackedFlags
    <3> HIDE DEF letters
    <3> QED BY <1>3, <3>2, <3>3, <3>4
  <2>4. ~Wrong(idx) /\ (NextIsMsg => ~Wrong(idx + 1))
    BY <1>4, <1>5, <1>7
  <2>5. Clean' /\ Boundary' /\ Collected'
    BY <1>1, <1>2, <2>1, <2>2, <2>3, <2>4, CollectFlags
  <2> QED BY <1>1, <2>1, <2>5, TakenStep DEF StackedFlags, More
<1> QED BY <1>6, <1>7

-----------------------------------------------------------------------------
(* The steps before and after the loop *)

\* What the loop has collected stays.
LEMMA Kept ==
  ASSUME UNCHANGED <<argv, idx, options>>
  PROVE  /\ Clean' <=> Clean
         /\ Boundary' <=> Boundary
         /\ Collected' <=> Collected
<1>1. /\ Positions' = Positions /\ Options' = Options
      /\ \A k : Letters(k)' = Letters(k)
      /\ \A l : Given(l)' = Given(l)
      /\ \A k : Wrong(k)' <=> Wrong(k)
  BY LineSame
<1>2. Past' = Past
  BY <1>1 DEF Past
<1>3. Clean' <=> Clean
  BY <1>1, <1>2 DEF Clean
<1>4. Boundary' <=> Boundary
  BY <1>1 DEF Boundary
<1>5. Collected' <=> Collected
  <2>1. UNCHANGED <<argv, idx, want, seen, used_all, used_n, n, msg>>
    BY DEF options
  <2>2. (UNION {Letters(k) : k \in Past})' = UNION {Letters(k) : k \in Past}
    BY <1>1, <1>2
  <2>3. \A l : (\E k \in Given(l)' : k + 1 < idx') <=> \E k \in Given(l) : k + 1 < idx
    BY <1>1, <2>1
  <2>4. {l \in Communication : \E k \in Given(l) : k + 1 < idx}'
          = {l \in Communication : \E k \in Given(l) : k + 1 < idx}
    BY <2>3
  <2>5. (\A l \in DOMAIN msg : \E k \in Given(l) :
           /\ k + 1 < idx /\ msg[l] = argv[k + 1]
           /\ \A j \in Given(l) : j + 1 < idx => j <= k)'
        <=> (\A l \in DOMAIN msg : \E k \in Given(l) :
               /\ k + 1 < idx /\ msg[l] = argv[k + 1]
               /\ \A j \in Given(l) : j + 1 < idx => j <= k)
    BY <1>1, <2>1
  <2> QED BY <1>2, <2>1, <2>2, <2>4, <2>5 DEF Collected
<1> QED BY <1>3, <1>4, <1>5

\* A line without arguments asks for nothing.
LEMMA CommandStep == ASSUME TypeOK, ParseInv, ~IsCommand, Command PROVE ParseInv'
<1>1. Clean /\ Boundary /\ Collected /\ sent = << >> /\ pc = "command"
  BY DEF Command, ParseInv
<1>2. CASE argv = << >> /\ GoTo("args_error")
  <2>1. Options = {}
    BY <1>2 DEF Options, Positions
  <2>2. ~Legal /\ ~Helped
    BY <2>1 DEF Legal, Helped, Wanted
  <2> QED BY <1>1, <1>2, <2>2, ErrorStep
<1>3. CASE GoTo("options")
  <2>1. UNCHANGED <<argv, idx, options, sent>> /\ pc' = "options"
    BY <1>3 DEF GoTo
  <2> QED BY <1>1, <2>1, Kept DEF ParseInv, Accepted
<1> QED BY <1>2, <1>3 DEF Command, IsCommand

\* Behind the last argument every option is past.
LEMMA AllPast ==
  ASSUME TypeOK, idx = Len(argv) + 1 PROVE Past = Options /\ \A k \in Positions : k < idx
<1>1. \A k \in Positions : k < idx
  BY Roles DEF TypeOK
<1> QED BY <1>1 DEF Past, Options

\* The options are all looked at.
LEMMA ParsedStep == ASSUME TypeOK, ParseInv, ~IsCommand, Parsed PROVE ParseInv'
<1>1. /\ Clean /\ Boundary /\ Collected /\ sent = << >> /\ pc = "options"
      /\ idx = Len(argv) + 1
  BY DEF Parsed, ParseInv, TypeOK
<1>2. Past = Options /\ \A k \in Positions : k < idx
  BY <1>1, AllPast
<1>3. want = Wanted /\ ~Helped
  BY <1>1, <1>2 DEF Collected, Clean, Helped, Wanted
<1>4. CASE want = {}
  <2>1. ~Legal /\ GoTo("args_error")
    BY <1>3, <1>4 DEF Parsed, Legal
  <2> QED BY <1>1, <1>3, <2>1, ErrorStep
<1>5. CASE want # {}
  <2>1. GoTo("run") \/ GoTo("sqlite_error") \/ GoTo("udp_error")
    BY <1>5 DEF Parsed, InitDb
  <2>2. /\ UNCHANGED <<argv, idx, options, sent>>
        /\ pc' \in {"run", "sqlite_error", "udp_error"}
    BY <2>1 DEF GoTo
  <2>3. want' # {} /\ idx' = Len(argv') + 1
    BY <1>1, <1>5, <2>2 DEF options
  <2> QED BY <1>1, <2>2, <2>3, Kept DEF ParseInv, Accepted
<1> QED BY <1>4, <1>5

\* The requests are sent.
LEMMA RunStep ==
  ASSUME TypeOK, ParseInv, ~IsCommand, RunSingle \/ RunMulti PROVE ParseInv'
<1>1. Clean /\ Collected /\ idx = Len(argv) + 1 /\ want # {} /\ pc = "run"
  BY DEF RunSingle, RunMulti, ParseInv, Accepted
<1>2. UNCHANGED <<argv, idx, options>> /\ pc' \in {"run", "success"}
  BY <1>1 DEF RunSingle, RunMulti, GoTo
<1>3. ASSUME pc' = "success" PROVE sent' # << >>
  <2>1. CASE RunSingle
    <3>1. Pending = {} /\ sent' = sent
      BY <1>1, <1>3, <2>1 DEF RunSingle, GoTo
    <3>2. sent = << >> => UNION {sent[k].tests : k \in DOMAIN sent} = {}
      OBVIOUS
    <3> QED BY <1>1, <3>1, <3>2 DEF Pending
  <2>2. CASE RunMulti
    BY <2>2 DEF RunMulti
  <2> QED BY <2>1, <2>2
<1>4. want' # {} /\ idx' = Len(argv') + 1
  BY <1>1, <1>2 DEF options
<1> QED BY <1>1, <1>2, <1>3, <1>4, Kept DEF ParseInv, Accepted

\* Every step preserves what is known of a line with options.
LEMMA ParseStep == TypeOK /\ ParseInv /\ [Next]_vars => ParseInv'
<1> SUFFICES ASSUME TypeOK, ParseInv, [Next]_vars PROVE ParseInv'
  OBVIOUS
<1>1. argv' = argv
  BY DEF Next, Command, InitDb, GoTo, Get, Help, All, Iterations, StackedFlags, Unexpected,
         Parsed, RunSingle, RunMulti, vars
<1>2. CASE IsCommand
  BY <1>1, <1>2, LineSame DEF ParseInv
<1>3. CASE ~IsCommand
  <2>1. CASE UNCHANGED vars
    <3>1. UNCHANGED <<argv, idx, options, sent, pc, want>>
      BY <2>1 DEF vars, options
    <3> QED BY <3>1, <1>3, Kept, LineSame DEF ParseInv, Accepted
  <2>2. ~Get
    BY <1>3 DEF Get, ParseInv
  <2> QED BY <1>3, <2>1, <2>2, CommandStep, HelpStep, AllStep, IterationsStep, StackStep,
             UnexpectedStep, ParsedStep, RunStep DEF Next
<1> QED BY <1>2, <1>3

-----------------------------------------------------------------------------
(* What is sent *)

\* The first of some tests is one of them, and no other one has its place before it.
LEMMA FirstIn ==
  ASSUME NEW L \in SUBSET Letter, L # {}
  PROVE  First(L) \in L /\ \A m \in L : Place[First(L)] <= Place[m]
<1>1. \E l \in L : \A m \in L : Place[l] <= Place[m]
  <2>1. /\ Place["u"] = 1 /\ Place["s"] = 2 /\ Place["i"] = 3
        /\ Place["a"] = 4 /\ Place["t"] = 5
    BY DEF Place
  <2>2. \A m \in L : m \in {"u", "s", "i", "a", "t"}
    BY DEF Letter
  <2>3. CASE "u" \in L
    BY <2>1, <2>2, <2>3
  <2>4. CASE "u" \notin L /\ "s" \in L
    BY <2>1, <2>2, <2>4
  <2>5. CASE "u" \notin L /\ "s" \notin L /\ "i" \in L
    BY <2>1, <2>2, <2>5
  <2>6. CASE "u" \notin L /\ "s" \notin L /\ "i" \notin L /\ "a" \in L
    BY <2>1, <2>2, <2>6
  <2>7. CASE "u" \notin L /\ "s" \notin L /\ "i" \notin L /\ "a" \notin L
    BY <2>1, <2>2, <2>7
  <2> QED BY <2>3, <2>4, <2>5, <2>6, <2>7
<1> QED BY <1>1 DEF First

\* A message is an argument of the line, or a default.
LEMMA MessageTyped ==
  ASSUME TypeOK, Collected, NEW l \in Communication PROVE Message(l) \in Payloads
<1>1. ASSUME l \in DOMAIN msg PROVE msg[l] \in Token
  <2>1. PICK k \in Given(l) : msg[l] = argv[k + 1]
    BY <1>1 DEF Collected
  <2>2. k \in Options /\ k < Len(argv)
    BY DEF Given
  <2>3. k \in Nat /\ argv \in Seq(Token)
    BY <2>2, Roles DEF Options, TypeOK
  <2> QED BY <2>1, <2>2, <2>3
<1>3. CASE l \in DOMAIN msg
  BY <1>1, <1>3 DEF Message, Payloads
<1>4. CASE l \notin DOMAIN msg
  BY <1>4 DEF Message, Payloads
<1> QED BY <1>3, <1>4

\* A request of hw_tester is well-formed.
LEMMA RequestTyped ==
  ASSUME TypeOK, Collected, NEW l \in Letter
  PROVE  Request(l) \in Requests /\ Request(l).tests = {l}
<1>1. n \in Byte
  BY DEF TypeOK
<1>2. Request(l).payload \in Payloads
  <2>1. CASE l \in Communication
    <3>1. Request(l).payload = Message(l)
      BY <2>1 DEF Request
    <3> QED BY <2>1, <3>1, MessageTyped
  <2>2. CASE l \notin Communication
    BY <2>2 DEF Request, Payloads
  <2> QED BY <2>1, <2>2
<1>3. Request(l) = [tests |-> {l}, n_iter |-> n, payload |-> Request(l).payload]
  BY DEF Request
<1> HIDE DEF Request
<1>4. \A y \in Payloads : [tests |-> {l}, n_iter |-> n, payload |-> y] \in Requests
  BY <1>1 DEF Requests
<1> QED BY <1>2, <1>3, <1>4 DEF Request

\* Whatever comes before a test that takes a message takes one.
LEMMA EarlierTakesMessage ==
  ASSUME NEW m \in Letter, NEW l \in Communication, Place[m] <= Place[l]
  PROVE  m \in Communication
<1>1. Place[l] <= 3 /\ Place[l] \in Int
  BY DEF Communication, Place
<1>2. Place[m] \in Int /\ (Place[m] <= 3 => m \in Communication)
  BY DEF Letter, Communication, Place
<1> QED BY <1>1, <1>2

\* So is the one of mthw_tester.
LEMMA SharedTyped ==
  ASSUME TypeOK, Collected, want # {} PROVE SharedMsg \in Payloads
<1>1. CASE want \cap DOMAIN msg = {}
  <2>1. SharedMsg = Default["u"] /\ "u" \in Communication
    BY <1>1 DEF SharedMsg, Communication
  <2> QED BY <2>1 DEF Payloads
<1>2. CASE want \cap DOMAIN msg # {}
  <2>1. PICK l \in want \cap DOMAIN msg : TRUE
    BY <1>2
  <2>2. First(want) \in want /\ Place[First(want)] <= Place[l] /\ want \subseteq Letter
    BY FirstIn DEF TypeOK
  <2>3. First(want) \in Communication
    BY <2>1, <2>2, EarlierTakesMessage DEF TypeOK
  <2>4. SharedMsg = Message(First(want))
    BY <1>2 DEF SharedMsg
  <2> QED BY <2>3, <2>4, MessageTyped
<1> QED BY <1>1, <1>2

\* hw_tester's next request is for a test that has none.
LEMMA SingleStep ==
  ASSUME TypeOK, ParseInv, SentInv, ~IsCommand, RunSingle PROVE SentInv'
<1>0. pc = "run" /\ program = "hw_tester" /\ Accepted /\ Collected
  BY DEF RunSingle, Accepted, ParseInv
<1>1. /\ sent \in Seq(Requests)
      /\ \A k \in DOMAIN sent : \E l \in want : sent[k] = Request(l)
      /\ \A j, k \in DOMAIN sent : j # k => sent[j].tests \cap sent[k].tests = {}
  BY <1>0 DEF SentInv
<1>2. UNCHANGED <<program, want, msg, n>>
  BY DEF RunSingle, GoTo, options
<1>3. \A l : Request(l)' = Request(l)
  BY <1>2 DEF Request, Message
<1>4. CASE Pending = {}
  <2>1. sent' = sent /\ pc' = "success"
    BY <1>4 DEF RunSingle, GoTo
  <2>2. Pending' = {}
    BY <1>2, <1>4, <2>1 DEF Pending
  <2> QED BY <1>0, <1>1, <1>2, <1>3, <2>1, <2>2 DEF SentInv
<1>5. CASE Pending # {}
  <2> DEFINE f == First(Pending)
  <2>1. sent' = Append(sent, Request(f)) /\ pc' = "run"
    BY <1>0, <1>5 DEF RunSingle
  <2>2. f \in Pending
    BY <1>5, FirstIn DEF Pending, TypeOK
  <2>3. /\ f \in want /\ f \in Letter
        /\ \A k \in DOMAIN sent : f \notin sent[k].tests
    BY <2>2 DEF Pending, TypeOK
  <2> HIDE DEF f
  <2>4. Request(f) \in Requests /\ Request(f).tests = {f}
    BY <1>0, <2>3, RequestTyped
  <2>5. /\ sent' \in Seq(Requests)
        /\ \A k \in DOMAIN sent' :
             \/ k \in DOMAIN sent /\ sent'[k] = sent[k]
             \/ k = Len(sent) + 1 /\ sent'[k] = Request(f)
    BY <1>1, <2>1, <2>4
  <2>6. \A k \in DOMAIN sent' : \E l \in want : sent'[k] = Request(l)
    BY <1>1, <2>3, <2>5
  <2>7. \A j, k \in DOMAIN sent' : j # k => sent'[j].tests \cap sent'[k].tests = {}
    BY <1>1, <2>3, <2>4, <2>5
  <2> QED BY <1>0, <1>2, <1>3, <2>1, <2>5, <2>6, <2>7 DEF SentInv
<1> QED BY <1>4, <1>5

\* mthw_tester's request is the only one.
LEMMA MultiStep ==
  ASSUME TypeOK, ParseInv, SentInv, ~IsCommand, RunMulti PROVE SentInv'
<1>0. pc = "run" /\ program = "mthw_tester" /\ Accepted /\ Collected /\ want # {}
  BY DEF RunMulti, Accepted, ParseInv
<1>1. UNCHANGED <<program, want, msg, n>> /\ pc' = "success"
  BY DEF RunMulti, options
<1>2. SharedMsg' = SharedMsg
  BY <1>1 DEF SharedMsg, Message
<1> DEFINE r == [tests |-> want, n_iter |-> n, payload |-> SharedMsg]
<1>3. sent' = <<r>>
  BY DEF RunMulti
<1>4. r \in Requests
  <2>1. SharedMsg \in Payloads
    BY <1>0, SharedTyped
  <2> HIDE DEF SharedMsg
  <2> QED BY <2>1 DEF Requests, TypeOK
<1>5. r' = r
  BY <1>1, <1>2
<1>6. sent' \in Seq(Requests)
  <2> HIDE DEF r
  <2> QED BY <1>3, <1>4
<1>7. sent' = <<[tests |-> want', n_iter |-> n', payload |-> SharedMsg']>>
  BY <1>3, <1>5
<1> QED BY <1>0, <1>1, <1>6, <1>7 DEF SentInv

\* The sending starts with nothing sent, and ends with it.
LEMMA SentStep == TypeOK /\ ParseInv /\ SentInv /\ [Next]_vars => SentInv'
<1> SUFFICES ASSUME TypeOK, ParseInv, SentInv, [Next]_vars PROVE SentInv'
  OBVIOUS
<1>1. argv' = argv /\ program' = program
  BY DEF Next, Command, InitDb, GoTo, Get, Help, All, Iterations, StackedFlags, Unexpected,
         Parsed, RunSingle, RunMulti, vars
<1>2. CASE IsCommand
  BY <1>1, <1>2, LineSame DEF SentInv
<1>3. CASE ~IsCommand
  <2>1. CASE UNCHANGED vars
    <3>1. UNCHANGED <<program, argv, sent, pc, want, msg, n>>
      BY <2>1 DEF vars, options
    <3>2. /\ \A l : Request(l)' = Request(l)
          /\ Pending' = Pending /\ SharedMsg' = SharedMsg
      BY <3>1 DEF Request, Message, Pending, SharedMsg
    <3> QED BY <3>1, <3>2, <1>3, LineSame DEF SentInv, Accepted
  <2>2. CASE Command \/ Help \/ All \/ Iterations \/ StackedFlags \/ Unexpected \/ Parsed
    <3>1. pc \in {"command", "options"} /\ sent' = sent
      BY <2>2 DEF Command, Help, All, Iterations, StackedFlags, Unexpected, Parsed, More,
                  InitDb, GoTo
    <3>2. sent' = << >>
      BY <3>1, <1>3 DEF ParseInv
    <3>3. << >> \in Seq(Requests) /\ DOMAIN << >> = {}
      OBVIOUS
    <3> QED BY <3>2, <3>3 DEF SentInv, Accepted
  <2>3. ~Get
    BY <1>3 DEF Get, ParseInv
  <2> QED BY <1>3, <2>1, <2>2, <2>3, SingleStep, MultiStep DEF Next
<1> QED BY <1>2, <1>3

-----------------------------------------------------------------------------
(* The commands, and the types *)

\* get prints one id after the other.
LEMMA CommandsStep == TypeOK /\ ParseInv /\ CommandInv /\ [Next]_vars => CommandInv'
<1> SUFFICES ASSUME TypeOK, ParseInv, CommandInv, [Next]_vars PROVE CommandInv'
  OBVIOUS
<1>a. argv' = argv
  BY DEF Next, Command, InitDb, GoTo, Get, Help, All, Iterations, StackedFlags, Unexpected,
         Parsed, RunSingle, RunMulti, vars
<1> SUFFICES ASSUME IsCommand PROVE CommandInv'
  BY <1>a, LineSame DEF CommandInv
<1>0. /\ argv \in Seq(Token) /\ Len(argv) \in Nat /\ idx \in Nat
      /\ printed \in Seq(0..IdRange - 1)
  BY DEF TypeOK
<1>1. CASE UNCHANGED vars
  BY <1>1, LineSame DEF CommandInv, vars
<1>2. CASE Command
  <2>1. /\ UNCHANGED <<argv, sent, printed, idx>> /\ pc = "command" /\ printed = << >>
        /\ Named("get") => pc' \in {"get", "args_error", "sqlite_error"}
        /\ Named("export") => pc' \in {"success", "args_error", "sqlite_error"}
    BY <1>2, <1>0 DEF Command, InitDb, GoTo, CommandInv, IsCommand, Named
  <2>2. Named("get") => ~Named("export")
    BY DEF Named
  <2> QED BY <1>0, <2>1, <2>2, LineSame DEF CommandInv, IsCommand
<1>3. CASE Get /\ pc' # pc
  <2>1. UNCHANGED <<argv, sent, printed, idx>> /\ pc = "get" /\ pc' \in {"success", "args_error"}
        /\ (pc' = "success" => idx = Len(argv))
    BY <1>3 DEF Get, GoTo
  <2> QED BY <1>0, <2>1, LineSame DEF CommandInv
<1>4. CASE Get /\ pc' = pc
  <2>1. /\ pc = "get" /\ UNCHANGED <<argv, sent, pc>> /\ idx # Len(argv)
        /\ Number[argv[idx + 1]] >= 0
        /\ printed' = Append(printed, Number[argv[idx + 1]] % IdRange) /\ idx' = idx + 1
    BY <1>4 DEF Get, GoTo
  <2>2. Named("get") /\ idx < Len(argv) /\ Len(printed) = idx - 1
    BY <1>0, <2>1 DEF CommandInv
  <2>3. /\ Len(printed') = idx /\ idx' = idx + 1 /\ idx' <= Len(argv)
        /\ \A k \in DOMAIN printed' :
             \/ k \in DOMAIN printed /\ printed'[k] = printed[k]
             \/ k = idx /\ printed'[k] = Number[argv[idx + 1]] % IdRange
    BY <1>0, <2>1, <2>2
  <2> QED BY <1>0, <2>1, <2>2, <2>3, LineSame DEF CommandInv
<1>5. ~(Help \/ All \/ Iterations \/ StackedFlags \/ Unexpected \/ Parsed \/ RunSingle \/ RunMulti)
  BY DEF Help, All, Iterations, StackedFlags, Unexpected, Parsed, RunSingle, RunMulti, More,
         CommandInv
<1> QED BY <1>1, <1>2, <1>3, <1>4, <1>5 DEF Next

\* Every step preserves the types.
LEMMA TypeStep == TypeOK /\ ParseInv /\ CommandInv /\ [Next]_vars => TypeOK'
<1> SUFFICES ASSUME TypeOK, ParseInv, CommandInv, [Next]_vars PROVE TypeOK'
  OBVIOUS
<1>t. /\ argv \in Seq(Token) /\ Len(argv) \in Nat /\ idx \in 1..Len(argv) + 1
      /\ printed \in Seq(0..IdRange - 1)
      /\ want \subseteq Letter /\ seen \subseteq Letter /\ DOMAIN msg \subseteq Communication
  BY DEF TypeOK
<1>g. ASSUME NEW a \in {"get", "options", "run", "success", "args_error", "sqlite_error", "udp_error"},
             GoTo(a)
      PROVE  TypeOK'
  BY <1>g DEF GoTo, TypeOK, options
<1>d. ASSUME NEW a \in {"get", "run", "success"}, InitDb(a) PROVE TypeOK'
  BY <1>d, <1>g DEF InitDb
<1>1. CASE UNCHANGED vars
  BY <1>1 DEF vars, options, TypeOK
<1>2. CASE Command
  BY <1>2, <1>g, <1>d DEF Command
<1>3. CASE Get
  <2>1. CASE pc' # pc
    BY <1>3, <2>1, <1>g DEF Get
  <2>2. CASE pc' = pc
    <3>1. /\ pc = "get" /\ idx # Len(argv) /\ idx' = idx + 1
          /\ argv[idx + 1] \in DOMAIN Number
          /\ printed' = Append(printed, Number[argv[idx + 1]] % IdRange)
          /\ UNCHANGED <<program, argv, pc, options>>
      BY <1>3, <2>2 DEF Get, GoTo
    <3>2. Named("get") /\ idx <= Len(argv)
      BY <3>1 DEF CommandInv, ParseInv
    <3>3. Number[argv[idx + 1]] % IdRange \in 0..IdRange - 1
      <4>1. \A i \in Int : i % IdRange \in 0..IdRange - 1
        BY TokenAssumption
      <4> QED BY <3>1, <4>1, TokenAssumption
    <3>4. idx' \in 1..Len(argv) + 1 /\ printed' \in Seq(0..IdRange - 1)
      BY <1>t, <3>1, <3>2, <3>3
    <3> QED BY <3>1, <3>4 DEF TypeOK, options
  <2> QED BY <2>1, <2>2
<1>4. CASE Help \/ Unexpected
  BY <1>4, <1>g DEF Help, Unexpected
<1>5. CASE All
  <2>1. CASE used_all
    BY <1>5, <2>1, <1>g DEF All
  <2>2. CASE ~used_all
    <3>1. /\ UNCHANGED <<program, argv, pc, used_n, n, printed, sent>>
          /\ used_all' = TRUE /\ want' = Letter /\ seen' = Letter
      BY <1>5, <2>2 DEF All
    <3>2. idx' \in 1..Len(argv) + 1 /\ DOMAIN msg' \subseteq Communication
      BY <1>5, <2>2, <1>t DEF All, More, NextIsMsg
    <3> QED BY <3>1, <3>2 DEF TypeOK
  <2> QED BY <2>1, <2>2
<1>6. CASE Iterations
  <2>1. CASE GoTo("args_error")
    BY <2>1, <1>g
  <2>2. CASE ~GoTo("args_error")
    <3>1. /\ UNCHANGED <<program, argv, pc, want, seen, used_all, msg, printed, sent>>
          /\ used_n' = TRUE /\ n' \in Byte
          /\ idx < Len(argv) /\ idx' = idx + 2
      BY <1>6, <2>2 DEF Iterations
    <3> QED BY <1>t, <3>1 DEF TypeOK
  <2> QED BY <2>1, <2>2
<1>7. CASE StackedFlags
  <2> DEFINE letters == ToSet(Stack[Arg])
  <2>1. CASE GoTo("args_error")
    BY <2>1, <1>g
  <2>2. CASE ~GoTo("args_error")
    <3>1. /\ UNCHANGED <<program, argv, pc, used_all, used_n, n, printed, sent>>
          /\ want' = want \cup letters /\ seen' = seen \cup letters
          /\ letters \subseteq Letter
          /\ NextIsMsg => letters \cap {"a", "t"} = {}
      BY <1>7, <2>2 DEF StackedFlags, BadStack
    <3>2. CASE NextIsMsg
      <4>1. idx' = idx + 2 /\ idx < Len(argv) /\ DOMAIN msg' = letters \cup DOMAIN msg
        BY <1>7, <2>2, <3>2 DEF StackedFlags, NextIsMsg
      <4>2. letters \subseteq Communication
        BY <3>1, <3>2 DEF Letter, Communication
      <4> HIDE DEF letters
      <4> QED BY <1>t, <3>1, <4>1, <4>2 DEF TypeOK
    <3>3. CASE ~NextIsMsg
      <4>1. idx' = idx + 1 /\ idx <= Len(argv) /\ msg' = msg
        BY <1>7, <2>2, <3>3 DEF StackedFlags, More
      <4> HIDE DEF letters
      <4> QED BY <1>t, <3>1, <4>1 DEF TypeOK
    <3> QED BY <3>2, <3>3
  <2> QED BY <2>1, <2>2
<1>8. CASE Parsed
  BY <1>8, <1>g, <1>d DEF Parsed
<1>9. CASE RunSingle \/ RunMulti
  BY <1>9, <1>g DEF RunSingle, RunMulti, options, TypeOK
<1> QED BY <1>1, <1>2, <1>3, <1>4, <1>5, <1>6, <1>7, <1>8, <1>9 DEF Next

\* The invariant holds when main begins.
LEMMA InitInv == Init => IInv
<1> SUFFICES ASSUME Init PROVE IInv
  OBVIOUS
<1>1. argv \in Seq(Token) /\ Len(argv) \in Nat
  <2>1. PICK m \in 0..MaxArgs : argv \in [1..m -> Token]
    BY DEF Init, SeqOf
  <2>2. m \in Nat
    BY TokenAssumption
  <2> QED BY <2>1, <2>2
<1>2. TypeOK
  <2>1. n \in Byte
    BY DEF Init, Byte, N_ITERATIONS
  <2>2. idx \in 1..Len(argv) + 1
    BY <1>1 DEF Init
  <2>3. printed \in Seq(0..IdRange - 1)
    BY DEF Init
  <2>4. DOMAIN msg \subseteq Communication
    BY DEF Init
  <2> QED BY <1>1, <2>1, <2>2, <2>3, <2>4 DEF Init, TypeOK
<1>3. \A k \in Options : k \in Nat /\ 1 <= k
  BY <1>2, Roles DEF Options
<1>4. Past = {} /\ \A k \in Positions : ~(k < idx)
  BY <1>1, <1>3 DEF Init, Past, Positions
<1>5. Clean /\ Boundary
  BY <1>4 DEF Clean, Boundary, Init
<1>6. \A l : \A k \in Given(l) : ~(k + 1 < idx)
  BY <1>3 DEF Init, Given
<1>7. Collected
  <2>1. DOMAIN msg = {}
    BY DEF Init
  <2>2. UNION {Letters(k) : k \in Past} = {}
    BY <1>4
  <2> QED BY <1>4, <1>6, <2>1, <2>2 DEF Init, Collected
<1>8. ParseInv /\ SentInv
  BY <1>5, <1>7 DEF Init, ParseInv, SentInv, Accepted
<1>9. CommandInv
  <2>1. DOMAIN printed = {} /\ Len(printed) = 0
    BY DEF Init
  <2> QED BY <1>1, <2>1 DEF Init, CommandInv, Named
<1> QED BY <1>2, <1>8, <1>9 DEF IInv

\* The inductive invariant, for every command line.
THEOREM Invariance == Spec => []IInv
<1>1. IInv /\ [Next]_vars => IInv'
  BY TypeStep, ParseStep, SentStep, CommandsStep DEF IInv
<1> QED BY InitInv, <1>1, PTL DEF Spec

\* Every variable keeps its type, the uint8_t of the iterations and the uint32_t of an id
\* included.
THEOREM TypeCorrect == Spec => []TypeOK
<1>1. IInv => TypeOK
  BY DEF IInv
<1> QED BY Invariance, <1>1, PTL

\* The parser refuses exactly the command lines that break a rule of the documentation.
THEOREM Rules == Spec => []FollowsTheRules
<1>1. ASSUME IInv, ~IsCommand, Accepted PROVE Legal /\ ~Helped
  <2>1. TypeOK /\ Clean /\ Collected /\ idx = Len(argv) + 1 /\ want # {}
    BY <1>1 DEF IInv, ParseInv
  <2>2. Past = Options /\ \A k \in Positions : k < idx
    BY <2>1, AllPast
  <2> QED BY <2>1, <2>2 DEF Clean, Collected, Legal, Helped, Wanted
<1>2. IInv => FollowsTheRules
  <2> SUFFICES ASSUME IInv, ~IsCommand
               PROVE  /\ pc = "args_error" => ~Legal /\ ~Helped /\ sent = << >>
                      /\ pc \in {"run", "udp_error", "sqlite_error"} => Legal /\ ~Helped
                      /\ pc = "success" =>
                           IF Helped THEN sent = << >> ELSE Legal /\ sent # << >>
    BY DEF FollowsTheRules
  <2>1. ParseInv
    BY DEF IInv
  <2> QED BY <1>1, <2>1 DEF ParseInv, Accepted
<1> QED BY Invariance, <1>2, PTL

\* At the end of the line, msg and n are what the rules promise.
LEMMA PromiseKept ==
  ASSUME TypeOK, Collected, idx = Len(argv) + 1
  PROVE  /\ want = Wanted
         /\ n = PromisedIterations
         /\ \A l \in Communication : Given(l) # {} <=> l \in DOMAIN msg
         /\ \A l \in Communication : Message(l) = Promised(l)
<1>0. /\ Past = Options
      /\ \A k \in Options : k \in Nat
      /\ Len(argv) \in Nat
  BY AllPast, Roles DEF Options, TypeOK
<1>1. want = Wanted
  BY <1>0 DEF Collected, Wanted
<1>2. n = PromisedIterations
  <2>1. CASE \E k \in Options : argv[k] = "-n"
    <3> DEFINE c == CHOOSE k \in Options : argv[k] = "-n"
    <3>1. c \in Options /\ argv[c] = "-n"
      BY <2>1
    <3>2. PromisedIterations = Number[argv[c + 1]]
      BY <2>1 DEF PromisedIterations
    <3> HIDE DEF c
    <3> QED BY <1>0, <3>1, <3>2 DEF Collected
  <2>2. CASE ~\E k \in Options : argv[k] = "-n"
    BY <1>0, <2>2 DEF Collected, PromisedIterations
  <2> QED BY <2>1, <2>2
<1>3. \A l : \A k \in Given(l) : k \in Nat /\ k + 1 < idx
  BY <1>0 DEF Given
<1>4. \A l \in Communication : Given(l) # {} <=> l \in DOMAIN msg
  BY <1>3 DEF Collected
<1>5. ASSUME NEW l \in Communication PROVE Message(l) = Promised(l)
  <2>1. CASE l \in DOMAIN msg
    <3>1. PICK k \in Given(l) : msg[l] = argv[k + 1] /\ \A j \in Given(l) : j <= k
      BY <1>3, <2>1 DEF Collected
    <3> DEFINE c == CHOOSE i \in Given(l) : \A j \in Given(l) : j <= i
    <3>2. c \in Given(l) /\ \A j \in Given(l) : j <= c
      BY <3>1
    <3>3. Promised(l) = argv[c + 1]
      BY <3>1 DEF Promised
    <3> HIDE DEF c
    <3>4. c = k
      BY <1>3, <3>1, <3>2
    <3> QED BY <2>1, <3>1, <3>3, <3>4 DEF Message
  <2>2. CASE l \notin DOMAIN msg
    BY <1>4, <2>2 DEF Message, Promised
  <2> QED BY <2>1, <2>2
<1> QED BY <1>1, <1>2, <1>4, <1>5

\* What hw_tester has sent when it is done is what was asked for.
LEMMA SinglePromised ==
  ASSUME IInv, ~IsCommand, pc = "success", sent # << >>, program = "hw_tester"
  PROVE  SendsThePromised
<1>1. /\ TypeOK /\ Collected /\ idx = Len(argv) + 1
      /\ sent \in Seq(Requests)
      /\ \A k \in DOMAIN sent : \E l \in want : sent[k] = Request(l)
      /\ \A j, k \in DOMAIN sent : j # k => sent[j].tests \cap sent[k].tests = {}
      /\ Pending = {}
  BY DEF IInv, ParseInv, SentInv, Accepted
<1>2. /\ want = Wanted /\ n = PromisedIterations
      /\ \A l \in Communication : Message(l) = Promised(l)
  BY <1>1, PromiseKept
<1>3. \A l : /\ Request(l).tests = {l} /\ Request(l).n_iter = n
             /\ l \in Communication => Request(l).payload = Message(l)
  BY DEF Request
<1>4. UNION {sent[k].tests : k \in DOMAIN sent} = Wanted
  <2>1. \A k \in DOMAIN sent : sent[k].tests \subseteq want
    BY <1>1, <1>3
  <2>2. want \subseteq UNION {sent[k].tests : k \in DOMAIN sent}
    BY <1>1 DEF Pending
  <2> QED BY <1>2, <2>1, <2>2
<1>5. ASSUME NEW k \in DOMAIN sent
      PROVE  /\ sent[k].n_iter = PromisedIterations
             /\ \A j \in DOMAIN sent : j # k => sent[j].tests \cap sent[k].tests = {}
             /\ \A l \in sent[k].tests \cap Communication : sent[k].payload = Promised(l)
  <2>1. PICK m \in want : sent[k] = Request(m)
    BY <1>1
  <2>2. sent[k].n_iter = PromisedIterations
    BY <1>2, <1>3, <2>1
  <2>3. \A l \in sent[k].tests \cap Communication : sent[k].payload = Promised(l)
    BY <1>2, <1>3, <2>1
  <2> QED BY <1>1, <2>2, <2>3
<1> QED BY <1>4, <1>5 DEF SendsThePromised

\* What mthw_tester has sent, when all tests are given the same message, too.
LEMMA MultiPromised ==
  ASSUME IInv, ~IsCommand, pc = "success", sent # << >>, program = "mthw_tester"
  PROVE  SendsThePromised
<1> DEFINE r == [tests |-> want, n_iter |-> n, payload |-> SharedMsg]
<1>1. /\ TypeOK /\ Collected /\ idx = Len(argv) + 1 /\ sent = <<r>>
  BY DEF IInv, ParseInv, SentInv, Accepted
<1>2. /\ want = Wanted /\ n = PromisedIterations
      /\ \A l \in Communication : Given(l) # {} <=> l \in DOMAIN msg
      /\ \A l \in Communication : Message(l) = Promised(l)
  BY <1>1, PromiseKept
<1>3. DOMAIN sent = {1} /\ sent[1] = r
  BY <1>1
<1>4. r.tests = want /\ r.n_iter = n /\ r.payload = SharedMsg
  OBVIOUS
<1>5. ASSUME NEW m, NEW l \in want \cap Communication,
             \A j \in Wanted \cap Communication : Given(j) # {} /\ Promised(j) = m
      PROVE  SharedMsg = Promised(l)
  <2>1. want \cap DOMAIN msg # {}
    BY <1>2, <1>5
  <2>2. First(want) \in want /\ Place[First(want)] <= Place[l] /\ want \subseteq Letter
    BY <1>1, FirstIn DEF TypeOK
  <2>3. First(want) \in Communication
    BY <2>2, EarlierTakesMessage
  <2>4. SharedMsg = Message(First(want))
    BY <2>1 DEF SharedMsg
  <2> QED BY <1>2, <1>5, <2>2, <2>3, <2>4
<1> HIDE DEF r
<1>6. UNION {sent[k].tests : k \in DOMAIN sent} = want
  BY <1>3, <1>4
<1>7. \A k \in DOMAIN sent : k = 1 /\ sent[k].n_iter = n /\ sent[k].tests = want
                             /\ sent[k].payload = SharedMsg
  BY <1>3, <1>4
<1> QED BY <1>2, <1>5, <1>6, <1>7 DEF SendsThePromised

\* What a legal command line asks for is what is done.
THEOREM Promises == Spec => []DoesThePromised
<1>1. IInv => SendsThePromised
  <2> SUFFICES ASSUME IInv PROVE SendsThePromised
    OBVIOUS
  <2>1. CASE pc = "success" /\ sent # << >>
    <3>1. ~IsCommand /\ program \in Program
      BY <2>1 DEF IInv, CommandInv, TypeOK
    <3> QED BY <2>1, <3>1, SinglePromised, MultiPromised DEF Program
  <2>2. CASE ~(pc = "success" /\ sent # << >>)
    BY <2>2 DEF SendsThePromised
  <2> QED BY <2>1, <2>2
<1>2. IInv => PrintsTheAsked
  <2> SUFFICES ASSUME IInv, Named("get")
               PROVE  /\ \A k \in DOMAIN printed : printed[k] = Number[argv[k + 1]] % IdRange
                      /\ pc = "success" => Len(printed) = Len(argv) - 1
                      /\ pc \in {"success", "get"} =>
                           \A k \in DOMAIN printed : Number[argv[k + 1]] >= 0
    BY DEF PrintsTheAsked
  <2> QED BY DEF IInv, CommandInv, IsCommand
<1>3. IInv => DoesThePromised
  BY <1>1, <1>2 DEF DoesThePromised
<1> QED BY Invariance, <1>3, PTL
====
