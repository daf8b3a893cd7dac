------------------------- MODULE CommandLine_proofs -------------------------
(* However long the argument list, neither parser looks behind it, and     *)
(* what both make of it is what the list itself says.                      *)
EXTENDS CommandLine, TLAPS

LEMMA ArgvIsAList ==
  ASSUME TypeOK
  PROVE  \E n \in 0..MaxArgs : argv \in [1..n -> Strings] /\ DOMAIN argv = 1..n
  BY DEF TypeOK

LEMMA ParseKeepsType ==
  ASSUME TypeOK, NEW p \in Programs, Parse(p)
  PROVE  TypeOK'
<1>1. PICK n \in 0..MaxArgs : argv \in [1..n -> Strings] /\ DOMAIN argv = 1..n
  BY ArgvIsAList
<1>2. argv' = argv /\ n \in Nat /\ n <= MaxArgs /\ index[p] \in Nat
  BY MaxArgsAssumption DEF Parse, TypeOK
<1>3. CASE index[p] \in DOMAIN argv /\ TakePath(p)
  <2>1. index[p] + 1 \in 1..n /\ Argument(index[p] + 1) \in Strings
    BY <1>1, <1>3 DEF TakePath, FollowedByPath, Argument
  <2>2. index[p] + 2 \in 1..(MaxArgs + 1)
    BY <1>2, <2>1, MaxArgsAssumption
  <2> QED
    BY <1>2, <1>3, <2>1, <2>2 DEF TakePath, BehindPath, TypeOK
<1>4. CASE index[p] \in DOMAIN argv /\ TakeInterface(p)
  <2>1. Argument(index[p]) \in Strings /\ index[p] + 1 \in 1..(MaxArgs + 1)
    BY <1>1, <1>2, <1>4, MaxArgsAssumption DEF Argument
  <2> QED
    BY <1>2, <1>4, <2>1 DEF TakeInterface, TypeOK
<1>5. CASE Refuse(p)
  BY <1>2, <1>5 DEF Refuse, TypeOK
<1>6. CASE RunMonitor(p)
  BY <1>2, <1>6 DEF RunMonitor, TypeOK, Strings
<1> QED
  BY <1>3, <1>4, <1>5, <1>6 DEF Parse

(* Both parsers keep to the arguments that were given and to strings.      *)
THEOREM TypeCorrect == Spec => []TypeOK
<1>1. Init => TypeOK
  BY MaxArgsAssumption DEF Init, TypeOK, Strings, Programs
<1>2. TypeOK /\ [Next]_vars => TypeOK'
  <2>1. TypeOK /\ UNCHANGED vars => TypeOK'
    BY DEF vars, TypeOK
  <2> QED
    BY <2>1, ParseKeepsType DEF Next
<1> QED
  BY <1>1, <1>2, PTL DEF Spec

-----------------------------------------------------------------------------
(* What a list means.  Every option takes the argument behind it, another  *)
(* option included; so an argument is looked at by a parser exactly if the *)
(* options in an unbroken row before it are even in number, and no count   *)
(* over the whole list is needed to say which arguments are names.         *)

Row(i, k) ==
  /\ \A j \in (i - k)..(i - 1) : Argument(j) = Option
  /\ Argument(i - k - 1) # Option

LookedAt(i) == \E m \in Nat : 2 * m < i /\ Row(i, 2 * m)

NameAt(j) == j \in DOMAIN argv /\ LookedAt(j) /\ argv[j] # Option
PathAt(j) == j \in DOMAIN argv /\ LookedAt(j) /\ argv[j] = Option

NamesBefore(i) == { j \in DOMAIN argv : j < i /\ NameAt(j) }
PathsBefore(i) == { j \in DOMAIN argv : j < i /\ PathAt(j) }

IsLast(j, S) == j \in S /\ \A k \in S : k <= j

Unset(p) == IF p = "demo" THEN Empty ELSE Default

LEMMA FirstIsLookedAt ==
  ASSUME 0 \notin DOMAIN argv
  PROVE  LookedAt(1)
<1>1. Row(1, 2 * 0)
  BY StringsAssumption DEF Row, Argument, Strings
<1> QED
  BY <1>1 DEF LookedAt

LEMMA BehindNameIsLookedAt ==
  ASSUME NEW i \in Nat, Argument(i) # Option
  PROVE  LookedAt(i + 1)
<1>1. Row(i + 1, 2 * 0)
  BY DEF Row
<1> QED
  BY <1>1 DEF LookedAt

LEMMA BehindPathIsLookedAt ==
  ASSUME NEW i \in Nat, LookedAt(i), Argument(i) = Option
  PROVE  LookedAt(i + 2)
<1>1. PICK m \in Nat : 2 * m < i /\ Row(i, 2 * m)
  BY DEF LookedAt
<1>2. CASE Argument(i + 1) # Option
  <2>1. Row(i + 2, 2 * 0)
    BY <1>2 DEF Row
  <2> QED
    BY <2>1 DEF LookedAt
<1>3. CASE Argument(i + 1) = Option
  <2>1. i + 2 - 2 * (m + 1) = i - 2 * m /\ i + 2 - 2 * (m + 1) - 1 = i - 2 * m - 1
    OBVIOUS
  <2>2. ASSUME NEW j \in (i - 2 * m)..(i + 2 - 1) PROVE Argument(j) = Option
    <3>1. j \in (i - 2 * m)..(i - 1) \/ j = i \/ j = i + 1
      OBVIOUS
    <3> QED
      BY <1>1, <1>3, <3>1 DEF Row
  <2>3. Row(i + 2, 2 * (m + 1))
    BY <1>1, <2>1, <2>2 DEF Row
  <2>4. m + 1 \in Nat /\ 2 * (m + 1) < i + 2
    BY <1>1
  <2> QED
    BY <2>3, <2>4 DEF LookedAt
<1> QED
  BY <1>2, <1>3

LEMMA PathIsNotLookedAt ==
  ASSUME NEW i \in Nat, LookedAt(i), Argument(i) = Option
  PROVE  ~LookedAt(i + 1)
<1> SUFFICES ASSUME LookedAt(i + 1) PROVE FALSE
  OBVIOUS
<1>1. PICK m \in Nat : Row(i, 2 * m)
  BY DEF LookedAt
<1>2. PICK k \in Nat : Row(i + 1, 2 * k)
  BY DEF LookedAt
<1>3. i + 1 - 2 * k - 1 = i - 2 * k
  OBVIOUS
<1>4. Argument(i - 2 * k) # Option /\ Argument(i - 2 * m - 1) # Option
  BY <1>1, <1>2, <1>3 DEF Row
<1>5. CASE k = 0
  BY <1>4, <1>5
<1>6. CASE k # 0 /\ k <= m
  <2>1. i - 2 * k \in (i - 2 * m)..(i - 1)
    BY <1>6
  <2> QED
    BY <1>1, <1>4, <2>1 DEF Row
<1>7. CASE k > m
  <2>1. i - 2 * m - 1 \in (i + 1 - 2 * k)..(i + 1 - 1)
    BY <1>7
  <2> QED
    BY <1>2, <1>4, <2>1 DEF Row
<1> QED
  BY <1>5, <1>6, <1>7

(* An option that a parser looks at and that has no path ends a list with  *)
(* an odd row of options.                                                  *)
LEMMA EndsWithoutPath ==
  ASSUME NEW n \in Nat, DOMAIN argv = 1..n, Len(argv) = n,
         n # 0, LookedAt(n), argv[n] = Option
  PROVE  Dangling
<1>1. PICK m \in Nat : 2 * m < n /\ Row(n, 2 * m)
  BY DEF LookedAt
<1> DEFINE k == 2 * m + 1
<1>2. k \in 1..Len(argv) /\ k % 2 = 1
  BY <1>1
<1>3. ASSUME NEW i \in DOMAIN argv, i > Len(argv) - k PROVE argv[i] = Option
  <2>1. i \in (n - 2 * m)..(n - 1) \/ i = n
    BY <1>3
  <2> QED
    BY <1>1, <2>1 DEF Row, Argument
<1>4. ASSUME k < Len(argv) PROVE argv[Len(argv) - k] # Option
  <2>1. Len(argv) - k = n - 2 * m - 1 /\ n - 2 * m - 1 \in DOMAIN argv
    BY <1>4
  <2> QED
    BY <1>1, <2>1 DEF Row, Argument
<1> QED
  BY <1>2, <1>3, <1>4 DEF Dangling

-----------------------------------------------------------------------------
(* What a parser has made of the arguments before the i-th: the name and   *)
(* the path it saw last, and no name behind one that it could not discard. *)
NameRead(p, i, name) ==
  /\ \A j, k \in NamesBefore(i) : j < k => argv[j] = Unset(p)
  /\ IF NamesBefore(i) = {} THEN name = Unset(p)
     ELSE \E j : IsLast(j, NamesBefore(i)) /\ name = argv[j]

PathRead(i, path) ==
  IF PathsBefore(i) = {} THEN path = Empty
  ELSE \E j : IsLast(j, PathsBefore(i)) /\ path = argv[j + 1]

Parsing(p) ==
  /\ LookedAt(index[p])
  /\ index[p] <= Len(argv) + 1
  /\ NameRead(p, index[p], target_interface_name[p])
  /\ PathRead(index[p], bpf_object_file_path[p])

Running(p) ==
  \E name, path :
    /\ NameRead(p, Len(argv) + 1, name)
    /\ PathRead(Len(argv) + 1, path)
    /\ target_interface_name[p] = IF p = "demo" /\ name = Empty THEN Default ELSE name
    /\ bpf_object_file_path[p] = IF path = Empty THEN Embedded ELSE path

Refused(p) ==
  \E j, k \in DOMAIN argv : j < k /\ NameAt(j) /\ NameAt(k) /\ argv[j] # Unset(p)

(* As long as no option lacks its path, each parser is where the list      *)
(* itself, read without a parser, says it must be.                         *)
ReadsTheList ==
  ~Dangling =>
    \A p \in Programs :
      /\ status[p] = "parsing" => Parsing(p)
      /\ status[p] = "run"     => Running(p)
      /\ status[p] = "usage"   => Refused(p)

(* What is before the argument behind a name, and behind a path.           *)
LEMMA BehindName ==
  ASSUME NEW i \in DOMAIN argv, DOMAIN argv \subseteq Nat,
         LookedAt(i), argv[i] # Option
  PROVE  /\ NamesBefore(i + 1) = NamesBefore(i) \cup {i}
         /\ PathsBefore(i + 1) = PathsBefore(i)
<1>1. \A j \in DOMAIN argv : j < i + 1 <=> j < i \/ j = i
  OBVIOUS
<1>2. NameAt(i) /\ ~PathAt(i)
  BY DEF NameAt, PathAt
<1> QED
  BY <1>1, <1>2 DEF NamesBefore, PathsBefore

LEMMA BehindPair ==
  ASSUME NEW i \in DOMAIN argv, DOMAIN argv \subseteq Nat,
         LookedAt(i), argv[i] = Option
  PROVE  /\ NamesBefore(i + 2) = NamesBefore(i)
         /\ PathsBefore(i + 2) = PathsBefore(i) \cup {i}
<1>1. \A j \in DOMAIN argv : j < i + 2 <=> j < i \/ j = i \/ j = i + 1
  OBVIOUS
<1>2. ~NameAt(i) /\ PathAt(i)
  BY DEF NameAt, PathAt
<1>3. ~NameAt(i + 1) /\ ~PathAt(i + 1)
  BY PathIsNotLookedAt DEF NameAt, PathAt, Argument
<1> QED
  BY <1>1, <1>2, <1>3 DEF NamesBefore, PathsBefore

(* One step of one parser.                                                 *)
LEMMA StepReads ==
  ASSUME TypeOK, NEW p \in Programs, Parse(p), ~Dangling, Parsing(p)
  PROVE  /\ status'[p] = "parsing" => Parsing(p)'
         /\ status'[p] = "run"     => Running(p)'
         /\ status'[p] = "usage"   => Refused(p)'
<1>1. PICK n \in 0..MaxArgs : argv \in [1..n -> Strings] /\ DOMAIN argv = 1..n
  BY ArgvIsAList
<1>2. /\ argv' = argv /\ n \in Nat /\ Len(argv) = n /\ DOMAIN argv \subseteq Nat
      /\ index[p] \in Nat \ {0} /\ status[p] = "parsing" /\ p \in DOMAIN status
  BY <1>1, MaxArgsAssumption DEF Parse, TypeOK
<1>3. /\ \A j : LookedAt(j)' <=> LookedAt(j)
      /\ \A j : NameAt(j)' <=> NameAt(j)
      /\ \A j : NamesBefore(j)' = NamesBefore(j)
      /\ \A j : PathsBefore(j)' = PathsBefore(j)
  BY <1>2 DEF LookedAt, Row, Argument, NameAt, PathAt, NamesBefore, PathsBefore
<1> DEFINE i == index[p]
<1>4. CASE i \in DOMAIN argv /\ TakePath(p)
  <2>1. /\ index'[p] = i + 2 /\ status'[p] = "parsing"
        /\ target_interface_name'[p] = target_interface_name[p]
        /\ bpf_object_file_path'[p] = Argument(i + 1)
    BY <1>2, <1>4 DEF TakePath, BehindPath, TypeOK
  <2>2. argv[i] = Option /\ Argument(i) = Option /\ i + 1 \in DOMAIN argv
    BY <1>4 DEF TakePath, FollowedByPath, Argument
  <2>3. LookedAt(i + 2) /\ i + 2 <= n + 1
    BY <1>1, <1>2, <2>2, BehindPathIsLookedAt DEF Parsing
  <2>4. /\ NamesBefore(i + 2) = NamesBefore(i)
        /\ PathsBefore(i + 2) = PathsBefore(i) \cup {i}
    BY <1>2, <1>4, <2>2, BehindPair DEF Parsing
  <2>5. NameRead(p, i + 2, target_interface_name[p])
    BY <2>4 DEF Parsing, NameRead
  <2>6. IsLast(i, PathsBefore(i + 2))
    BY <1>2, <1>4, <2>4 DEF IsLast, PathsBefore
  <2>7. PathRead(i + 2, Argument(i + 1))
    BY <2>2, <2>4, <2>6 DEF PathRead, Argument
  <2> QED
    BY <1>2, <1>3, <2>1, <2>3, <2>5, <2>7 DEF Parsing, NameRead, PathRead
<1>5. CASE i \in DOMAIN argv /\ IsName(p) /\ Argument(i) # Option
  <2>1. argv[i] # Option
    BY <1>5 DEF Argument
  <2>2. /\ NamesBefore(i + 1) = NamesBefore(i) \cup {i}
        /\ PathsBefore(i + 1) = PathsBefore(i)
    BY <1>2, <1>5, <2>1, BehindName DEF Parsing
  <2>3. CASE TakeInterface(p)
    <3>1. /\ index'[p] = i + 1 /\ status'[p] = "parsing"
          /\ target_interface_name'[p] = argv[i]
          /\ bpf_object_file_path'[p] = bpf_object_file_path[p]
      BY <1>2, <1>5, <2>3 DEF TakeInterface, TypeOK, Argument
    <3>2. LookedAt(i + 1) /\ i + 1 <= n + 1
      BY <1>1, <1>2, <1>5, BehindNameIsLookedAt
    <3>3. target_interface_name[p] = Unset(p)
      BY <2>3 DEF TakeInterface, NoInterfaceYet, Unset
    <3>4. \A j \in NamesBefore(i) : j < i
      BY DEF NamesBefore
    <3>5. \A j \in NamesBefore(i) : argv[j] = Unset(p)
      BY <1>2, <3>3, <3>4 DEF Parsing, NameRead, IsLast, NamesBefore
    <3>6. IsLast(i, NamesBefore(i + 1))
      BY <1>2, <2>2, <3>4 DEF IsLast, NamesBefore
    <3>7. NameRead(p, i + 1, argv[i])
      <4>1. ASSUME NEW j \in NamesBefore(i + 1), NEW k \in NamesBefore(i + 1), j < k
            PROVE  argv[j] = Unset(p)
        <5>1. j # i
          BY <1>2, <2>2, <3>4, <4>1 DEF NamesBefore
        <5> QED
          BY <2>2, <3>5, <5>1
      <4>2. NamesBefore(i + 1) # {}
        BY <2>2
      <4> QED
        BY <3>6, <4>1, <4>2 DEF NameRead
    <3>8. PathRead(i + 1, bpf_object_file_path[p])
      BY <2>2 DEF Parsing, PathRead
    <3> QED
      BY <1>2, <1>3, <3>1, <3>2, <3>7, <3>8 DEF Parsing, NameRead, PathRead
  <2>4. CASE Refuse(p)
    <3>1. status'[p] = "usage" /\ target_interface_name[p] # Unset(p)
      BY <1>2, <1>5, <2>4 DEF Refuse, NoInterfaceYet, Unset
    <3>2. PICK j : j \in NamesBefore(i) /\ argv[j] # Unset(p)
      BY <3>1 DEF Parsing, NameRead, IsLast
    <3>3. NameAt(i) /\ NameAt(j) /\ j < i /\ j \in DOMAIN argv
      BY <1>5, <2>1, <3>2 DEF Parsing, NameAt, NamesBefore
    <3>4. Refused(p)
      BY <1>5, <3>2, <3>3 DEF Refused
    <3> QED
      BY <1>2, <1>3, <3>1, <3>4 DEF Refused, Unset
  <2>5. ~TakePath(p) /\ index[p] \in DOMAIN argv
    BY <1>5 DEF TakePath
  <2> QED
    BY <2>3, <2>4, <2>5 DEF Parse
<1>6. CASE i \in DOMAIN argv /\ Argument(i) = Option /\ ~TakePath(p)
  <2>1. CASE FollowedByPath(i)
    BY <1>2, <1>6, <2>1 DEF Parse, TakeInterface, Refuse, IsName
  <2>2. CASE ~FollowedByPath(i)
    <3>1. i = n /\ n # 0 /\ argv[n] = Option
      BY <1>1, <1>2, <1>6, <2>2 DEF FollowedByPath, Argument
    <3> QED
      BY <1>1, <1>2, <3>1, EndsWithoutPath DEF Parsing
  <2> QED
    BY <2>1, <2>2
<1>7. CASE i \notin DOMAIN argv
  <2>1. RunMonitor(p) /\ i = n + 1
    BY <1>1, <1>2, <1>7 DEF Parse, Parsing
  <2>2. /\ status'[p] = "run"
        /\ target_interface_name'[p] =
             IF p = "demo" /\ target_interface_name[p] = Empty THEN Default
             ELSE target_interface_name[p]
        /\ bpf_object_file_path'[p] =
             IF bpf_object_file_path[p] = Empty THEN Embedded ELSE bpf_object_file_path[p]
    BY <1>2, <2>1 DEF RunMonitor, TypeOK
  <2>3. /\ NameRead(p, n + 1, target_interface_name[p])
        /\ PathRead(n + 1, bpf_object_file_path[p])
    BY <2>1 DEF Parsing
  <2> HIDE DEF i
  <2> DEFINE name == target_interface_name[p]
             path == bpf_object_file_path[p]
  <2>4. /\ NameRead(p, n + 1, name) /\ PathRead(n + 1, path)
        /\ target_interface_name'[p] = IF p = "demo" /\ name = Empty THEN Default ELSE name
        /\ bpf_object_file_path'[p] = IF path = Empty THEN Embedded ELSE path
    BY <2>2, <2>3
  <2> QED
    BY <1>2, <1>3, <2>2, <2>4 DEF Running, NameRead, PathRead, Unset
<1>8. Argument(i) # Option => IsName(p)
  BY DEF IsName
<1> QED
  BY <1>4, <1>5, <1>6, <1>7, <1>8

LEMMA OtherKeepsReading ==
  ASSUME NEW p \in Programs, argv' = argv, index'[p] = index[p], status'[p] = status[p],
         target_interface_name'[p] = target_interface_name[p],
         bpf_object_file_path'[p] = bpf_object_file_path[p]
  PROVE  /\ Parsing(p)' <=> Parsing(p)
         /\ Running(p)' <=> Running(p)
         /\ Refused(p)' <=> Refused(p)
<1>1. /\ \A j : LookedAt(j)' <=> LookedAt(j)
      /\ \A j : NameAt(j)' <=> NameAt(j)
      /\ \A j : NamesBefore(j)' = NamesBefore(j)
      /\ \A j : PathsBefore(j)' = PathsBefore(j)
  BY DEF LookedAt, Row, Argument, NameAt, PathAt, NamesBefore, PathsBefore
<1> QED
  BY <1>1 DEF Parsing, Running, Refused, NameRead, PathRead, Unset

LEMMA OtherStandsStill ==
  ASSUME TypeOK, NEW p \in Programs, NEW q \in Programs \ {p}, Parse(p)
  PROVE  /\ argv' = argv /\ index'[q] = index[q] /\ status'[q] = status[q]
         /\ target_interface_name'[q] = target_interface_name[q]
         /\ bpf_object_file_path'[q] = bpf_object_file_path[q]
  BY DEF Parse, TakePath, TakeInterface, Refuse, RunMonitor, TypeOK

LEMMA KeepsReading == TypeOK /\ ReadsTheList /\ [Next]_vars => ReadsTheList'
<1> SUFFICES ASSUME TypeOK, ReadsTheList, [Next]_vars, ~Dangling', NEW q \in Programs
             PROVE  /\ status'[q] = "parsing" => Parsing(q)'
                    /\ status'[q] = "run"     => Running(q)'
                    /\ status'[q] = "usage"   => Refused(q)'
  BY DEF ReadsTheList
<1>1. argv' = argv
  BY DEF Next, Parse, vars
<1>2. ~Dangling
  BY <1>1 DEF Dangling
<1>3. /\ status[q] = "parsing" => Parsing(q)
      /\ status[q] = "run"     => Running(q)
      /\ status[q] = "usage"   => Refused(q)
  BY <1>2 DEF ReadsTheList
<1>4. CASE Parse(q)
  BY <1>2, <1>3, <1>4, StepReads DEF Parse
<1>5. CASE UNCHANGED vars \/ \E p \in Programs \ {q} : Parse(p)
  <2>1. /\ index'[q] = index[q] /\ status'[q] = status[q]
        /\ target_interface_name'[q] = target_interface_name[q]
        /\ bpf_object_file_path'[q] = bpf_object_file_path[q]
    BY <1>5, OtherStandsStill DEF vars
  <2>2. /\ Parsing(q)' <=> Parsing(q)
        /\ Running(q)' <=> Running(q)
        /\ Refused(q)' <=> Refused(q)
    BY <1>1, <2>1, OtherKeepsReading
  <2> QED
    BY <1>3, <2>1, <2>2
<1> QED
  BY <1>4, <1>5 DEF Next

LEMMA StartsReading == Init => ReadsTheList
<1> SUFFICES ASSUME Init, NEW p \in Programs PROVE Parsing(p) /\ status[p] = "parsing"
  BY DEF ReadsTheList
<1>1. PICK n \in 0..MaxArgs : argv \in [1..n -> Strings] /\ DOMAIN argv = 1..n
  BY DEF Init
<1>2. n \in Nat /\ Len(argv) = n /\ index[p] = 1 /\ status[p] = "parsing"
  BY <1>1, MaxArgsAssumption DEF Init
<1>3. LookedAt(1)
  BY <1>1, <1>2, FirstIsLookedAt
<1>4. NamesBefore(1) = {} /\ PathsBefore(1) = {}
  BY <1>1, <1>2 DEF NamesBefore, PathsBefore
<1>5. target_interface_name[p] = Unset(p) /\ bpf_object_file_path[p] = Empty
  BY DEF Init, Unset
<1> QED
  BY <1>2, <1>3, <1>4, <1>5 DEF Parsing, NameRead, PathRead

(* Both parsers always are where the list itself says they must be, for    *)
(* lists of any length.                                                    *)
THEOREM ListIsRead == Spec => []ReadsTheList
  BY StartsReading, KeepsReading, TypeCorrect, PTL DEF Spec

-----------------------------------------------------------------------------
(* What the demo runs, on lists of any length without an empty argument or *)
(* an option that lacks its path, the example runs alike; and it refuses   *)
(* what the demo refuses, unless the default name is on the list.          *)
THEOREM ParsersAgree == Spec => []SameCommandLine
<1>1. TypeOK /\ ReadsTheList => SameCommandLine
  <2> DEFINE given == { argv[i] : i \in DOMAIN argv }
  <2> SUFFICES ASSUME TypeOK, ReadsTheList, ~Dangling, Empty \notin given,
                      \A p \in Programs : status[p] # "parsing"
               PROVE  /\ status["demo"] = "run" =>
                           /\ status["example"] = "run"
                           /\ target_interface_name["demo"] = target_interface_name["example"]
                           /\ bpf_object_file_path["demo"] = bpf_object_file_path["example"]
                      /\ status["demo"] = "usage" /\ Default \notin given =>
                           status["example"] = "usage"
    BY DEF SameCommandLine
  <2>1. \A i \in DOMAIN argv : argv[i] # Empty
    OBVIOUS
  <2>2. \A p \in Programs : status[p] \in {"run", "usage"}
                            /\ (status[p] = "run" => Running(p))
                            /\ (status[p] = "usage" => Refused(p))
    BY DEF ReadsTheList, TypeOK
  <2>3. PICK n \in Nat : DOMAIN argv = 1..n /\ Len(argv) = n
    BY ArgvIsAList
  <2>4. ASSUME NEW p \in Programs, NEW q \in Programs, Refused(p), Running(q)
        PROVE  Unset(q) \in given
    <3>1. PICK j, k \in DOMAIN argv : j < k /\ NameAt(j) /\ NameAt(k)
      BY <2>4 DEF Refused
    <3>2. j \in NamesBefore(n + 1) /\ k \in NamesBefore(n + 1)
      BY <2>3, <3>1 DEF NamesBefore
    <3>3. argv[j] = Unset(q)
      BY <2>3, <2>4, <3>1, <3>2 DEF Running, NameRead
    <3> QED
      BY <3>1, <3>3
  <2>5. /\ status["demo"] = "run" => status["example"] = "run"
        /\ status["demo"] = "usage" /\ Default \notin given => status["example"] = "usage"
    BY <2>2, <2>4 DEF Programs, Unset
  <2>6. ASSUME status["demo"] = "run"
        PROVE  /\ target_interface_name["demo"] = target_interface_name["example"]
               /\ bpf_object_file_path["demo"] = bpf_object_file_path["example"]
    <3>1. PICK name, path :
            /\ NameRead("demo", n + 1, name) /\ PathRead(n + 1, path)
            /\ target_interface_name["demo"] = IF name = Empty THEN Default ELSE name
            /\ bpf_object_file_path["demo"] = IF path = Empty THEN Embedded ELSE path
      BY <2>2, <2>3, <2>6 DEF Running, Programs
    <3>2. PICK name2, path2 :
            /\ NameRead("example", n + 1, name2) /\ PathRead(n + 1, path2)
            /\ target_interface_name["example"] = name2
            /\ bpf_object_file_path["example"] = IF path2 = Empty THEN Embedded ELSE path2
      BY <2>2, <2>3, <2>5, <2>6 DEF Running, Programs
    <3>3. \A S, j, k : S \subseteq Nat /\ IsLast(j, S) /\ IsLast(k, S) => j = k
      BY DEF IsLast
    <3>4. NamesBefore(n + 1) \subseteq Nat /\ PathsBefore(n + 1) \subseteq Nat
      BY <2>3 DEF NamesBefore, PathsBefore
    <3>5. path = path2
      BY <3>1, <3>2, <3>3, <3>4 DEF PathRead
    <3>6. CASE NamesBefore(n + 1) = {}
      BY <3>1, <3>2, <3>5, <3>6 DEF NameRead, Unset
    <3>7. CASE NamesBefore(n + 1) # {}
      <4>1. name = name2 /\ \E j \in NamesBefore(n + 1) : name = argv[j]
        BY <3>1, <3>2, <3>3, <3>4, <3>7 DEF NameRead, IsLast
      <4>2. name # Empty
        BY <2>1, <4>1 DEF NamesBefore
      <4> QED
        BY <3>1, <3>2, <3>5, <4>1, <4>2
    <3> QED
      BY <3>6, <3>7
  <2> QED
    BY <2>5, <2>6
<1> QED
  BY <1>1, TypeCorrect, ListIsRead, PTL

(* Of "[interface] [--bpf <path>]", in either order, both programs make    *)
(* what it says, for every name and every path.                            *)
LEMMA OneName ==
  ASSUME NEW p \in Programs, NEW i \in DOMAIN argv, NEW j,
         NamesBefore(j) = {i}, NEW name, NameRead(p, j, name)
  PROVE  name = argv[i]
  BY DEF NameRead, IsLast

LEMMA OnePath ==
  ASSUME NEW i \in DOMAIN argv, NEW j, PathsBefore(j) = {i}, NEW path, PathRead(j, path)
  PROVE  path = argv[i + 1]
  BY DEF PathRead, IsLast

LEMMA UsageLists ==
  ASSUME NEW name, NEW path, argv \in Given(name, path)
  PROVE  \/ argv = <<>> /\ name = Empty /\ path = Empty
         \/ argv = <<name>> /\ name # Empty /\ path = Empty
         \/ argv = <<Option, path>> /\ name = Empty /\ path # Empty
         \/ argv = <<name, Option, path>> /\ name # Empty /\ path # Empty
         \/ argv = <<Option, path, name>> /\ name # Empty /\ path # Empty
<1>1. CASE name = Empty /\ path = Empty
  BY <1>1 DEF Given
<1>2. CASE name # Empty /\ path = Empty
  BY <1>2 DEF Given
<1>3. CASE name = Empty /\ path # Empty
  BY <1>3 DEF Given
<1>4. CASE name # Empty /\ path # Empty
  <2>1. argv \in {<<name>> \o <<Option, path>>, <<Option, path>> \o <<name>>}
    BY <1>4 DEF Given
  <2> QED
    BY <1>4, <2>1
<1> QED
  BY <1>1, <1>2, <1>3, <1>4

LEMMA UsageIsRead ==
  ASSUME NEW name \in Strings \ {Option}, NEW path \in Strings, argv \in Given(name, path),
         NEW n \in Nat, DOMAIN argv = 1..n, Len(argv) = n
  PROVE  /\ ~Dangling
         /\ IF name = Empty THEN NamesBefore(n + 1) = {}
            ELSE \E i \in DOMAIN argv : NamesBefore(n + 1) = {i} /\ argv[i] = name
         /\ IF path = Empty THEN PathsBefore(n + 1) = {}
            ELSE \E i \in DOMAIN argv : PathsBefore(n + 1) = {i} /\ argv[i + 1] = path
<1>0. NamesBefore(1) = {} /\ PathsBefore(1) = {} /\ LookedAt(1) /\ DOMAIN argv \subseteq Nat
  BY FirstIsLookedAt DEF NamesBefore, PathsBefore
<1>1. CASE argv = <<>> /\ name = Empty /\ path = Empty
  <2>1. n = 0
    BY <1>1
  <2> QED
    BY <1>0, <1>1, <2>1 DEF Dangling
<1>2. CASE argv = <<name>> /\ name # Empty /\ path = Empty
  <2>1. n = 1 /\ argv[1] = name /\ argv[1] # Option
    BY <1>2
  <2>2. NamesBefore(2) = {1} /\ PathsBefore(2) = {}
    BY <1>0, <2>1, BehindName
  <2>3. ~Dangling
    BY <2>1 DEF Dangling
  <2> QED
    BY <1>2, <2>1, <2>2, <2>3
<1>3. CASE argv = <<Option, path>> /\ name = Empty /\ path # Empty
  <2>1. n = 2 /\ argv[1] = Option /\ argv[2] = path
    BY <1>3
  <2>2. NamesBefore(3) = {} /\ PathsBefore(3) = {1}
    BY <1>0, <2>1, BehindPair
  <2>3. ~Dangling
    BY <2>1 DEF Dangling
  <2> QED
    BY <1>3, <2>1, <2>2, <2>3
<1>4. CASE argv = <<name, Option, path>> /\ name # Empty /\ path # Empty
  <2>1. n = 3 /\ argv[1] = name /\ argv[1] # Option /\ argv[2] = Option /\ argv[3] = path
    BY <1>4
  <2>2. NamesBefore(2) = {1} /\ PathsBefore(2) = {} /\ LookedAt(2)
    BY <1>0, <2>1, BehindName, BehindNameIsLookedAt DEF Argument
  <2>3. NamesBefore(4) = {1} /\ PathsBefore(4) = {2}
    BY <1>0, <2>1, <2>2, BehindPair
  <2>4. ~Dangling
    BY <2>1 DEF Dangling
  <2> QED
    BY <1>4, <2>1, <2>3, <2>4
<1>5. CASE argv = <<Option, path, name>> /\ name # Empty /\ path # Empty
  <2>1. n = 3 /\ argv[1] = Option /\ argv[2] = path /\ argv[3] = name /\ argv[3] # Option
    BY <1>5
  <2>2. NamesBefore(3) = {} /\ PathsBefore(3) = {1} /\ LookedAt(3)
    BY <1>0, <2>1, BehindPair, BehindPathIsLookedAt DEF Argument
  <2>3. NamesBefore(4) = {3} /\ PathsBefore(4) = {1}
    BY <1>0, <2>1, <2>2, BehindName
  <2>4. ~Dangling
    BY <2>1 DEF Dangling
  <2> QED
    BY <1>5, <2>1, <2>3, <2>4
<1> QED
  BY <1>1, <1>2, <1>3, <1>4, <1>5, UsageLists

(* The usage line is understood, whatever names and paths are given.       *)
THEOREM UsageUnderstood == Spec => []UsageIsUnderstood
<1>1. TypeOK /\ ReadsTheList => UsageIsUnderstood
  <2> SUFFICES ASSUME TypeOK, ReadsTheList, NEW p \in Programs,
                      NEW name \in Strings \ {Option}, NEW path \in Strings,
                      argv \in Given(name, path)
               PROVE  /\ status[p] # "usage"
                      /\ status[p] = "run" =>
                           /\ target_interface_name[p] = IF name = Empty THEN Default ELSE name
                           /\ bpf_object_file_path[p] = IF path = Empty THEN Embedded ELSE path
    BY DEF UsageIsUnderstood
  <2>1. PICK n \in Nat : DOMAIN argv = 1..n /\ Len(argv) = n
    BY ArgvIsAList
  <2>2. /\ ~Dangling
        /\ IF name = Empty THEN NamesBefore(n + 1) = {}
           ELSE \E i \in DOMAIN argv : NamesBefore(n + 1) = {i} /\ argv[i] = name
        /\ IF path = Empty THEN PathsBefore(n + 1) = {}
           ELSE \E i \in DOMAIN argv : PathsBefore(n + 1) = {i} /\ argv[i + 1] = path
    BY <2>1, UsageIsRead
  <2>3. status[p] # "usage"
    <3>1. \A j, k : j \in NamesBefore(n + 1) /\ k \in NamesBefore(n + 1) => j = k
      BY <2>2
    <3>2. \A j \in DOMAIN argv : NameAt(j) => j \in NamesBefore(n + 1)
      BY <2>1 DEF NamesBefore
    <3>3. ~Refused(p)
      BY <2>1, <3>1, <3>2 DEF Refused
    <3> QED
      BY <2>2, <3>3 DEF ReadsTheList
  <2>4. ASSUME status[p] = "run"
        PROVE  /\ target_interface_name[p] = IF name = Empty THEN Default ELSE name
               /\ bpf_object_file_path[p] = IF path = Empty THEN Embedded ELSE path
    <3>1. PICK given, file :
            /\ NameRead(p, n + 1, given) /\ PathRead(n + 1, file)
            /\ target_interface_name[p] =
                 IF p = "demo" /\ given = Empty THEN Default ELSE given
            /\ bpf_object_file_path[p] = IF file = Empty THEN Embedded ELSE file
      BY <2>1, <2>2, <2>4 DEF ReadsTheList, Running
    <3>2. file = path
      BY <2>2, <3>1, OnePath DEF PathRead
    <3>3. given = IF name = Empty THEN Unset(p) ELSE name
      BY <2>2, <3>1, OneName DEF NameRead
    <3>4. target_interface_name[p] = IF name = Empty THEN Default ELSE name
      BY <3>1, <3>3 DEF Unset, Programs
    <3> QED
      BY <3>1, <3>2, <3>4
  <2> QED
    BY <2>3, <2>4
<1> QED
  BY <1>1, TypeCorrect, ListIsRead, PTL
=============================================================================
