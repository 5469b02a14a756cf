---------------------------- MODULE StreamsProofs ----------------------------
(***************************************************************************)
(* The descriptors of run_encoder and run_decoder, for any limit on the    *)
(* number of descriptors and any number of sessions.                       *)
(*                                                                         *)
(* That nothing is left open between two sessions is not inductive, nor is *)
(* that the threads use their own streams: both need to know, at every     *)
(* step of a session, what each descriptor in use stands for (StdKept,     *)
(* ListenerKept, OutputKept, InputKept, CloneKept), that the clone is not  *)
(* the output itself, and that nothing else is open (NothingElseOpen).     *)
(***************************************************************************)
EXTENDS Streams, WellFoundedInduction, TLAPS

USE StreamsAssumption

FdOrNone == Fd \cup {NoFd}

TypeOK ==
  /\ input_uri \in {"stdin", "tcp", "af_packet"}
  /\ output_uri \in {"stdout", "tcp", "af_packet"}
  /\ main \in {"listen", "connect", "accept", "clone", "start", "wait", "returned",
               "failed"}
  /\ DOMAIN files = Fd
  /\ {listener_fd, output_fd, input_fd, clone_fd} \subseteq FdOrNone
  /\ {dispatcher, forwarder} \subseteq {"none", "running", "ended"}

(* Who runs: threads live inside a session, except that a forwarder may    *)
(* outlast a start that has failed.                                        *)
ThreadsInSession ==
  /\ main \notin {"wait", "failed"} => dispatcher = "none" /\ forwarder = "none"
  /\ main = "failed" => dispatcher = "none"

InputHeld == main \in {"clone", "start"} \/ dispatcher = "running"
CloneHeld == main = "start" \/ forwarder = "running"
InService == main \in {"accept", "clone", "start", "wait"}

StdKept == \A fd \in 0 .. 2 : files[fd] = Std(fd)

ListenerKept ==
  /\ main = "listen" => listener_fd = NoFd
  /\ listener_fd # NoFd => files[listener_fd] = <<"listener", 0>>

OutputKept ==
  /\ main \in {"listen", "connect"} => output_fd = NoFd
  /\ InService => output_fd \in Fd /\ files[output_fd] = Output

InputKept ==
  InputHeld =>
    /\ input_fd \in Fd /\ files[input_fd] = Input(sessions)
    /\ input_uri = "stdin" => input_fd = 0

CloneKept ==
  CloneHeld /\ clone_fd # NoFd =>
    /\ files[clone_fd] = Output
    /\ IF output_uri = "stdout" THEN clone_fd = 1 ELSE clone_fd # output_fd

NothingElseOpen ==
  main # "failed" =>
    \A fd \in Fd \ FreeFds :
      \/ fd \in 0 .. 2 \cup {listener_fd, output_fd}
      \/ InputHeld /\ fd = input_fd
      \/ CloneHeld /\ fd = clone_fd

Inv == /\ TypeOK /\ ThreadsInSession /\ StdKept /\ ListenerKept /\ OutputKept
       /\ InputKept /\ CloneKept /\ NothingElseOpen
       /\ reached \subseteq {Output}

(* socket, accept and dup return a descriptor that was free.               *)
LEMMA LowestIsFree == FreeFds # {} => Lowest \in FreeFds
<1> SUFFICES ASSUME FreeFds # {} PROVE Lowest \in FreeFds
  OBVIOUS
<1>1. FreeFds \subseteq Nat
  BY DEF FreeFds, Fd
<1>2. \E fd \in FreeFds : \A other \in FreeFds : ~(<<other, fd>> \in OpToRel(<, Nat))
  BY <1>1, WFMin, NatLessThanWellFounded
<1>3. \E fd \in FreeFds : \A other \in FreeFds : fd <= other
  <2>1. \A a, b \in Nat : a < b => <<a, b>> \in OpToRel(<, Nat)
    BY Zenon DEF OpToRel
  <2>2. PICK fd \in FreeFds : \A other \in FreeFds : ~(<<other, fd>> \in OpToRel(<, Nat))
    BY <1>2
  <2>3. \A other \in FreeFds : ~(other < fd)
    BY <1>1, <2>1, <2>2
  <2>4. \A other \in FreeFds : fd <= other
    BY <1>1, <2>3
  <2> QED
    BY <2>4
<1> QED
  BY <1>3 DEF Lowest

(* The files that the process distinguishes.                               *)
LEMMA FilesDiffer ==
  /\ \A fd : Std(fd) # Free /\ Std(fd) # <<"listener", 0>> /\ <<"listener", 0>> # Free
  /\ \A k : Input(k) # Free /\ Input(k) # Output /\ Input(k) # <<"listener", 0>>
  /\ Output # Free /\ Output # <<"listener", 0>>
  /\ input_uri # "stdin" => \A k, fd : Input(k) # Std(fd)
  /\ output_uri # "stdout" => \A fd : Output # Std(fd)
  BY DEF Std, Free, Input, Output

LEMMA OpensOne ==
  ASSUME TypeOK, NEW file, Opens(file)
  PROVE  /\ Lowest \in Fd /\ Lowest # NoFd /\ files[Lowest] = Free
         /\ DOMAIN files' = Fd /\ files'[Lowest] = file
         /\ \A fd \in Fd \ {Lowest} : files'[fd] = files[fd]
<1>1. Lowest \in Fd /\ files[Lowest] = Free
  BY LowestIsFree DEF Opens, FreeFds
<1>2. Lowest # NoFd
  BY <1>1 DEF Fd, NoFd
<1> QED
  BY <1>1, <1>2 DEF Opens, TypeOK

LEMMA StdFds == 0 .. 2 \subseteq Fd /\ NoFd \notin Fd
  BY DEF Fd, NoFd

(* The main thread makes the streams of the process ...                    *)
LEMMA SetupKeepsInv ==
  Inv /\ (Listen \/ Connect \/ Fails \/ NewFails \/ NoMoreStreams) => Inv'
<1> SUFFICES ASSUME Inv, Listen \/ Connect \/ Fails \/ NewFails \/ NoMoreStreams
             PROVE  Inv'
  OBVIOUS
<1> USE StdFds, FilesDiffer DEF Inv, TypeOK, FdOrNone, ThreadsInSession, InputHeld,
      CloneHeld, InService, StdKept, ListenerKept, OutputKept, InputKept, CloneKept,
      NothingElseOpen, FreeFds, uris, threads, fds
<1>0. UNCHANGED uris => Output' = Output /\ Input(sessions)' = Input(sessions')
  BY DEF Output, Input
<1>1. CASE Listen
  <2>1. CASE input_uri = "tcp"
    <3>1. Opens(<<"listener", 0>>) /\ listener_fd' = Lowest
      BY <1>1, <2>1 DEF Listen
    <3> QED
      BY <1>0, <1>1, <3>1, OpensOne DEF Listen
  <2>2. CASE input_uri # "tcp"
    BY <1>0, <1>1, <2>2 DEF Listen
  <2> QED
    BY <2>1, <2>2
<1>2. CASE Connect
  <2>1. CASE output_uri # "stdout"
    <3>1. Opens(Output) /\ output_fd' = Lowest
      BY <1>2, <2>1 DEF Connect
    <3> QED
      BY <1>0, <1>2, <3>1, OpensOne DEF Connect
  <2>2. CASE output_uri = "stdout"
    <3>1. Output = Std(1)
      BY <2>2 DEF Output
    <3> QED
      BY <1>0, <1>2, <2>2, <3>1 DEF Connect
  <2> QED
    BY <2>1, <2>2
<1>3. CASE Fails \/ NoMoreStreams
  BY <1>0, <1>3 DEF Fails, NoMoreStreams
<1>4. CASE NewFails
  <2>1. Opens(<<"input", 0>>)
    BY <1>4 DEF NewFails
  <2> QED
    BY <1>0, <1>4, <2>1, OpensOne DEF NewFails
<1> QED
  BY <1>1, <1>2, <1>3, <1>4

(* ... then those of a session, ...                                        *)
LEMMA AcceptKeepsInv == Inv /\ Accept => Inv'
<1> SUFFICES ASSUME Inv, Accept PROVE Inv'
  OBVIOUS
<1> USE StdFds, FilesDiffer DEF Inv, TypeOK, FdOrNone, ThreadsInSession, InputHeld,
      CloneHeld, InService, StdKept, ListenerKept, OutputKept, InputKept, CloneKept,
      NothingElseOpen, FreeFds, uris, threads, fds
<1>0. Output' = Output /\ Input(sessions)' = Input(sessions + 1)
  BY DEF Accept, Output, Input
<1>1. CASE input_uri = "stdin"
  <2>1. Input(sessions + 1) = Std(0)
    BY <1>1 DEF Input
  <2> QED
    BY <1>0, <1>1, <2>1 DEF Accept
<1>2. CASE input_uri # "stdin"
  <2>1. Opens(Input(sessions + 1)) /\ input_fd' = Lowest
    BY <1>2 DEF Accept
  <2> QED
    BY <1>0, <1>2, <2>1, OpensOne DEF Accept
<1> QED
  BY <1>1, <1>2

LEMMA CloneKeepsInv == Inv /\ (Clone \/ CloneFails) => Inv'
<1> SUFFICES ASSUME Inv, Clone \/ CloneFails PROVE Inv'
  OBVIOUS
<1> USE StdFds, FilesDiffer DEF Inv, TypeOK, FdOrNone, ThreadsInSession, InputHeld,
      CloneHeld, InService, StdKept, ListenerKept, OutputKept, InputKept, CloneKept,
      NothingElseOpen, FreeFds, uris, threads, fds
<1>0. Output' = Output /\ Input(sessions)' = Input(sessions)
  BY DEF Clone, CloneFails, Output, Input
<1>1. CASE Clone
  <2>1. CASE output_uri = "stdout"
    <3>1. Output = Std(1)
      BY <2>1 DEF Output
    <3> QED
      BY <1>0, <1>1, <2>1, <3>1 DEF Clone
  <2>2. CASE output_uri # "stdout"
    <3>1. Opens(Output) /\ clone_fd' = Lowest
      BY <1>1, <2>2 DEF Clone, Dup
    <3> QED
      BY <1>0, <1>1, <2>2, <3>1, OpensOne DEF Clone
  <2> QED
    BY <2>1, <2>2
<1>2. CASE CloneFails /\ output_uri = "tcp"
  BY <1>0, <1>2 DEF CloneFails, Dropped
<1>3. CASE CloneFails /\ output_uri # "tcp"
  BY <1>0, <1>3 DEF CloneFails
<1> QED
  BY <1>1, <1>2, <1>3

(* ... and starts and awaits its threads, ...                              *)
LEMMA SessionKeepsInv == Inv /\ (Start \/ StartFails \/ WaitReturns) => Inv'
<1> SUFFICES ASSUME Inv, Start \/ StartFails \/ WaitReturns PROVE Inv'
  OBVIOUS
<1> USE StdFds, FilesDiffer DEF Inv, TypeOK, FdOrNone, ThreadsInSession, InputHeld,
      CloneHeld, InService, StdKept, ListenerKept, OutputKept, InputKept, CloneKept,
      NothingElseOpen, FreeFds, uris, threads, fds
<1>0. Output' = Output /\ Input(sessions)' = Input(sessions)
  BY DEF Start, StartFails, WaitReturns, Output, Input
<1>1. CASE Start \/ WaitReturns
  BY <1>0, <1>1 DEF Start, WaitReturns
<1>2. CASE StartFails
  BY <1>0, <1>2 DEF StartFails, Dropped
<1> QED
  BY <1>1, <1>2

(* ... which write to the output and drop their streams.                   *)
LEMMA ThreadsKeepInv ==
  Inv /\ (ForwarderWrites \/ DispatcherEnds \/ ForwarderEnds) => Inv'
<1> SUFFICES ASSUME Inv, ForwarderWrites \/ DispatcherEnds \/ ForwarderEnds PROVE Inv'
  OBVIOUS
<1> USE StdFds, FilesDiffer DEF Inv, TypeOK, FdOrNone, ThreadsInSession, InputHeld,
      CloneHeld, InService, StdKept, ListenerKept, OutputKept, InputKept, CloneKept,
      NothingElseOpen, FreeFds, uris, threads, fds
<1>0. Output' = Output /\ Input(sessions)' = Input(sessions)
  BY DEF ForwarderWrites, DispatcherEnds, ForwarderEnds, Output, Input
<1>1. CASE ForwarderWrites
  BY <1>0, <1>1 DEF ForwarderWrites
<1>2. CASE DispatcherEnds
  BY <1>0, <1>2 DEF DispatcherEnds, Dropped
<1>3. CASE ForwarderEnds
  BY <1>0, <1>3 DEF ForwarderEnds, Dropped
<1> QED
  BY <1>1, <1>2, <1>3

LEMMA SpecInv == Spec => []Inv
<1> USE StdFds DEF Inv, TypeOK, FdOrNone, ThreadsInSession, InputHeld,
      CloneHeld, InService, StdKept, ListenerKept, OutputKept, InputKept, CloneKept,
      NothingElseOpen, FreeFds
<1>1. ASSUME Init PROVE Inv
  <2>1. \A fd \in 0 .. 2 : fd \in Fd /\ fd <= 2
    BY DEF Fd
  <2>2. \A fd \in Fd : fd \in 0 .. 2 \/ ~(fd <= 2)
    BY DEF Fd
  <2>3. /\ DOMAIN files = Fd /\ \A fd \in 0 .. 2 : files[fd] = Std(fd)
        /\ \A fd \in Fd : fd \in 0 .. 2 \/ files[fd] = Free
    BY <1>1, <2>1, <2>2 DEF Init
  <2> QED
    BY <1>1, <2>3 DEF Init
<1>2. Inv /\ [Next]_vars => Inv'
  <2>1. Inv /\ UNCHANGED vars => Inv'
    BY DEF vars, uris, threads, fds, Output, Input
  <2> QED
    BY <2>1, SetupKeepsInv, AcceptKeepsInv, CloneKeepsInv, SessionKeepsInv,
       ThreadsKeepInv DEF Next, Terminated
<1> HIDE DEF Inv
<1> QED
  BY <1>1, <1>2, PTL DEF Spec

-----------------------------------------------------------------------------
(* Whatever a forwarder has written went to the output of the process and  *)
(* a dispatcher reads the input of its own session, for any number of      *)
(* descriptors: no thread uses a descriptor that was closed or given out   *)
(* again.                                                                  *)
THEOREM StreamsThreadsUseTheirStreams == Spec => []ThreadsUseTheirStreams
<1>1. Inv => ThreadsUseTheirStreams
  BY DEF Inv, InputKept, InputHeld, ThreadsUseTheirStreams
<1> QED
  BY <1>1, SpecInv, PTL

(* Between two sessions exactly the listener, the output and the standard  *)
(* streams are open, after any number of sessions.                         *)
THEOREM StreamsSessionsLeaveNothingOpen == Spec => []SessionsLeaveNothingOpen
<1>1. Inv => SessionsLeaveNothingOpen
  BY DEF Inv, OutputKept, InService, NothingElseOpen, InputHeld, CloneHeld,
         ThreadsInSession, SessionsLeaveNothingOpen
<1> QED
  BY <1>1, SpecInv, PTL
=============================================================================
