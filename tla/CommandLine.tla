----------------------------- MODULE CommandLine ----------------------------
(* How the two example programs read the same command line: args::parse of *)
(* the demo and the loop in main() of the integration example, each one    *)
(* argument per step.                                                      *)
EXTENDS Integers, Sequences, FiniteSets

CONSTANTS
  Names,     (* Names of interfaces and of files.                          *)
  Default,   (* The name "enp5s0", the default interface.                  *)
  Empty,     (* The empty string.                                          *)
  Option,    (* The string "--bpf".                                        *)
  Embedded,  (* XDP_BPF_OBJECT_FILE_PATH                                   *)
  Null,      (* What lies behind the last argument.                        *)
  MaxArgs    (* Bound: arguments given.                                    *)

Programs == {"demo", "example"}
Strings  == Names \cup {Default, Empty, Option}

VARIABLES
  argv,                    (* Rigid: the arguments behind the program name. *)
  index,                   (* The argument each program looks at.          *)
  target_interface_name, bpf_object_file_path,
  status                   (* "parsing", "run" or "usage".                 *)

vars == <<argv, index, target_interface_name, bpf_object_file_path, status>>

ASSUME StringsAssumption ==
  /\ Null \notin Strings \cup {Embedded}
  /\ Cardinality({Default, Empty, Option}) = 3
  /\ Names \cap {Default, Empty, Option} = {}

ASSUME MaxArgsAssumption == MaxArgs \in Nat

Argument(i) == IF i \in DOMAIN argv THEN argv[i] ELSE Null

(* Mutant: a comparison with argc that is off by one.                      *)
FollowedByAnything(i) == i \in DOMAIN argv

FollowedByPath(i) == i + 1 \in DOMAIN argv

(* Mutant: argv[index + 1] where the code has argv[++index].               *)
PathIsReadAgain(i) == i + 1

BehindPath(i) == i + 2

(* Mutant: the example's test with the demo's meaning of "not given yet".  *)
EmptyMeansUnset(p) == target_interface_name[p] = Empty

NoInterfaceYet(p) ==
  target_interface_name[p] = IF p = "demo" THEN Empty ELSE Default

-----------------------------------------------------------------------------
TakePath(p) ==
  /\ Argument(index[p]) = Option
  /\ FollowedByPath(index[p])
  /\ bpf_object_file_path' = [bpf_object_file_path EXCEPT ![p] = Argument(index[p] + 1)]
  /\ index' = [index EXCEPT ![p] = BehindPath(@)]
  /\ UNCHANGED <<target_interface_name, status>>

(* To the example an option without a path is a name like any other.       *)
IsName(p) ==
  \/ Argument(index[p]) # Option
  \/ p = "example" /\ ~FollowedByPath(index[p])

TakeInterface(p) ==
  /\ IsName(p) /\ NoInterfaceYet(p)
  /\ target_interface_name' = [target_interface_name EXCEPT ![p] = Argument(index[p])]
  /\ index' = [index EXCEPT ![p] = @ + 1]
  /\ UNCHANGED <<bpf_object_file_path, status>>

Refuse(p) ==
  /\ \/ IsName(p) /\ ~NoInterfaceYet(p)
     \/ ~IsName(p) /\ ~FollowedByPath(index[p])
  /\ status' = [status EXCEPT ![p] = "usage"]
  /\ UNCHANGED <<index, target_interface_name, bpf_object_file_path>>

(* The demo fills in both defaults here, the example only the path.        *)
RunMonitor(p) ==
  /\ target_interface_name' = [target_interface_name EXCEPT ![p] =
       IF p = "demo" /\ @ = Empty THEN Default ELSE @]
  /\ bpf_object_file_path' = [bpf_object_file_path EXCEPT ![p] =
       IF @ = Empty THEN Embedded ELSE @]
  /\ status' = [status EXCEPT ![p] = "run"]
  /\ UNCHANGED index

Parse(p) ==
  /\ status[p] = "parsing"
  /\ \/ index[p] \in DOMAIN argv /\ (TakePath(p) \/ TakeInterface(p) \/ Refuse(p))
     \/ index[p] \notin DOMAIN argv /\ RunMonitor(p)
  /\ UNCHANGED argv

Init ==
  /\ argv \in UNION { [1..n -> Strings] : n \in 0..MaxArgs }
  /\ index = [p \in Programs |-> 1]
  /\ target_interface_name = [p \in Programs |-> IF p = "demo" THEN Empty ELSE Default]
  /\ bpf_object_file_path = [p \in Programs |-> Empty]
  /\ status = [p \in Programs |-> "parsing"]

Next == \E p \in Programs : Parse(p)

Spec == Init /\ [][Next]_vars

-----------------------------------------------------------------------------
(* Properties.                                                             *)

(* Every variable has its type: the programs stay within the list, and use *)
(* no argv[argc], whose null pointer no std::string can be made of.        *)
TypeOK ==
  /\ argv \in UNION { [1..n -> Strings] : n \in 0..MaxArgs }
  /\ index \in [Programs -> 1..(MaxArgs + 1)]
  /\ target_interface_name \in [Programs -> Strings]
  /\ bpf_object_file_path \in [Programs -> Strings \cup {Embedded}]
  /\ status \in [Programs -> {"parsing", "run", "usage"}]

(* "[interface] [--bpf <path>]", in either order: both programs accept     *)
(* every such list and run with exactly what it names, also when it names  *)
(* the default, and defaults for what it leaves out.                       *)
Given(name, path) ==
  LET interface == IF name = Empty THEN <<>> ELSE <<name>>
      option    == IF path = Empty THEN <<>> ELSE <<Option, path>>
  IN  {interface \o option, option \o interface}

UsageIsUnderstood ==
  \A name \in Strings \ {Option}, path \in Strings :
    argv \in Given(name, path) =>
      \A p \in Programs :
        /\ status[p] # "usage"
        /\ status[p] = "run" =>
             /\ target_interface_name[p] = IF name = Empty THEN Default ELSE name
             /\ bpf_object_file_path[p] = IF path = Empty THEN Embedded ELSE path

(* The list ends in an option that has no path: every option takes the     *)
(* argument behind it, another option included.                            *)
Dangling ==
  \E n \in 1..Len(argv) :
    /\ n % 2 = 1
    /\ \A i \in DOMAIN argv : i > Len(argv) - n => argv[i] = Option
    /\ n < Len(argv) => argv[Len(argv) - n] # Option

(* "Same command-line interface as the demo": unless an argument is empty  *)
(* or the last option has no path, the example runs whatever the demo      *)
(* runs, with the same meaning, and refuses what the demo refuses, unless  *)
(* the default name is given, behind which it accepts another.             *)
SameCommandLine ==
  LET given == { argv[i] : i \in DOMAIN argv }
  IN  /\ Empty \notin given
      /\ ~Dangling
      /\ \A p \in Programs : status[p] # "parsing"
      =>
      /\ status["demo"] = "run" =>
           /\ status["example"] = "run"
           /\ target_interface_name["demo"] = target_interface_name["example"]
           /\ bpf_object_file_path["demo"] = bpf_object_file_path["example"]
      /\ status["demo"] = "usage" /\ Default \notin given =>
           status["example"] = "usage"
=============================================================================
