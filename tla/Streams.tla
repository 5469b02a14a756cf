------------------------------- MODULE Streams -------------------------------
(***************************************************************************)
(* The streams of run_encoder and run_decoder and the descriptors behind   *)
(* them.  Both functions open a listener and an output once and then, for  *)
(* each input stream, hand the stream to a dispatcher thread and a clone   *)
(* of the output to a forwarder thread, which drop them when they end.     *)
(*                                                                         *)
(* A descriptor that is closed is the next one to be given out again: a    *)
(* stream that is closed twice, or used after it was closed, is another    *)
(* stream.  RawSocket manages its descriptor by hand; the std streams do   *)
(* it themselves.  Unix sockets behave as TCP sockets do.                  *)
(***************************************************************************)
EXTENDS Integers

CONSTANTS
  MaxFd,        \* descriptors that the process may have
  MaxSessions   \* bound on the input streams

ASSUME StreamsAssumption ==
  /\ MaxFd \in Nat /\ MaxFd > 3
  /\ MaxSessions \in Nat

Fd == 0 .. MaxFd - 1
NoFd == -1   \* what dup and socket return when they fail

VARIABLES
  input_uri,    \* of the command line: "stdin", "tcp" or "af_packet"
  output_uri,   \* "stdout", "tcp" or "af_packet"
  main,         \* what the main thread does next
  is_closed,    \* of the stdin listener
  sessions,     \* input streams so far
  files,        \* files[fd] is the open file behind fd
  listener_fd, output_fd, input_fd, clone_fd,   \* in the stream objects
  dispatcher, forwarder,  \* "none", "running", "ended"
  reached       \* the files that forwarders have written to

fds     == <<listener_fd, output_fd, input_fd, clone_fd>>
threads == <<dispatcher, forwarder>>
uris    == <<input_uri, output_uri>>
vars    == <<uris, main, is_closed, sessions, files, fds, threads, reached>>

(* The files behind the descriptors. *)
Free     == <<"free", 0>>
Std(fd)  == <<"std", fd>>
Input(n) == IF input_uri = "stdin" THEN Std(0) ELSE <<"input", n>>
Output   == IF output_uri = "stdout" THEN Std(1) ELSE <<"output", 0>>

Init ==
  /\ input_uri \in {"stdin", "tcp", "af_packet"}
  /\ output_uri \in {"stdout", "tcp", "af_packet"}
  /\ main = "listen"
  /\ is_closed = FALSE
  /\ sessions = 0
  /\ files = [fd \in Fd |-> IF fd <= 2 THEN Std(fd) ELSE Free]
  /\ listener_fd = NoFd /\ output_fd = NoFd
  /\ input_fd = NoFd /\ clone_fd = NoFd
  /\ dispatcher = "none" /\ forwarder = "none"
  /\ reached = {}

-----------------------------------------------------------------------------
(* The system calls.  A call that returns a descriptor returns the lowest. *)

FreeFds == {fd \in Fd : files[fd] = Free}
Lowest  == CHOOSE fd \in FreeFds : \A other \in FreeFds : fd <= other

Opens(file) == FreeFds # {} /\ files' = [files EXCEPT ![Lowest] = file]

(* Mutant: drop leaves the descriptor open.                                *)
LeftOpen(fd, isStd) == files

(* Dropping a stream: stdin and stdout stay open, close fails on NoFd.     *)
Dropped(fd, isStd) ==
  IF isStd \/ fd = NoFd THEN files ELSE [files EXCEPT ![fd] = Free]

-----------------------------------------------------------------------------
(* The main thread.                                                        *)

(* Listener::from_uri.  A raw socket is opened for each stream instead.    *)
Listen ==
  /\ main = "listen"
  /\ main' = "connect"
  /\ IF input_uri = "tcp"
       THEN Opens(<<"listener", 0>>) /\ listener_fd' = Lowest
       ELSE UNCHANGED <<files, listener_fd>>
  /\ UNCHANGED <<uris, is_closed, sessions, output_fd, input_fd, clone_fd,
                 threads, reached>>

(* OutputStream::from_uri.                                                 *)
Connect ==
  /\ main = "connect"
  /\ main' = "accept"
  /\ IF output_uri = "stdout"
       THEN output_fd' = 1 /\ UNCHANGED files
       ELSE Opens(Output) /\ output_fd' = Lowest
  /\ UNCHANGED <<uris, is_closed, sessions, listener_fd, input_fd, clone_fd,
                 threads, reached>>

(* One of the calls above, or accept, or bind, which closes the raw socket *)
(* again, fails: the function returns Err.                                 *)
Fails ==
  /\ \/ main = "listen" /\ input_uri = "tcp"
     \/ main = "connect" /\ output_uri # "stdout"
     \/ main = "accept" /\ input_uri # "stdin"
  /\ main' = "failed"
  /\ UNCHANGED <<uris, is_closed, sessions, files, fds, threads, reached>>

(* RawSocket::new fails after it has called socket: the descriptor is      *)
(* never closed.  The process ends with it.                                *)
NewFails ==
  /\ \/ main = "connect" /\ output_uri = "af_packet"
     \/ main = "accept" /\ input_uri = "af_packet"
  /\ Opens(<<"input", 0>>)
  /\ main' = "failed"
  /\ UNCHANGED <<uris, is_closed, sessions, fds, threads, reached>>

(* Incoming::next returns a stream: stdin once, an accepted socket, or a   *)
(* new raw socket.                                                         *)
Accept ==
  /\ main = "accept"
  /\ sessions < MaxSessions
  /\ ~is_closed
  /\ main' = "clone"
  /\ sessions' = sessions + 1
  /\ IF input_uri = "stdin"
       THEN is_closed' = TRUE /\ input_fd' = 0 /\ UNCHANGED files
       ELSE /\ Opens(Input(sessions + 1))
            /\ input_fd' = Lowest
            /\ UNCHANGED is_closed
  /\ UNCHANGED <<uris, listener_fd, output_fd, clone_fd, threads, reached>>

(* Incoming::next returns None.                                            *)
NoMoreStreams ==
  /\ main = "accept"
  /\ is_closed
  /\ main' = "returned"
  /\ UNCHANGED <<uris, is_closed, sessions, files, fds, threads, reached>>

(* Mutant: RawSocket derives Clone, the clone has the same descriptor.     *)
SharesDescriptor == clone_fd' = output_fd /\ UNCHANGED files

Dup == Opens(Output) /\ clone_fd' = Lowest

(* OutputStream::try_clone.                                                *)
Clone ==
  /\ main = "clone"
  /\ main' = "start"
  /\ IF output_uri = "stdout" THEN clone_fd' = 1 /\ UNCHANGED files ELSE Dup
  /\ UNCHANGED <<uris, is_closed, sessions, listener_fd, output_fd, input_fd,
                 threads, reached>>

(* dup fails.  A TcpStream reports it and the input is dropped; a          *)
(* RawSocket is cloned with an invalid descriptor.                         *)
CloneFails ==
  /\ main = "clone"
  /\ output_uri # "stdout"
  /\ IF output_uri = "tcp"
       THEN /\ main' = "failed"
            /\ files' = Dropped(input_fd, input_uri = "stdin")
            /\ UNCHANGED clone_fd
       ELSE main' = "start" /\ clone_fd' = NoFd /\ UNCHANGED files
  /\ UNCHANGED <<uris, is_closed, sessions, listener_fd, output_fd, input_fd,
                 threads, reached>>

(* start_encoding or start_decoding.                                       *)
Start ==
  /\ main = "start"
  /\ main' = "wait"
  /\ dispatcher' = "running" /\ forwarder' = "running"
  /\ UNCHANGED <<uris, is_closed, sessions, files, fds, reached>>

(* The configuration is refused: the forwarder may run for what is left of *)
(* the process.                                                            *)
StartFails ==
  /\ main = "start"
  /\ main' = "failed"
  /\ forwarder' = "running"
  /\ files' = Dropped(input_fd, input_uri = "stdin")
  /\ UNCHANGED <<uris, is_closed, sessions, fds, dispatcher, reached>>

WaitReturns ==
  /\ main = "wait"
  /\ dispatcher = "ended" /\ forwarder = "ended"
  /\ main' = "accept"
  /\ dispatcher' = "none" /\ forwarder' = "none"
  /\ UNCHANGED <<uris, is_closed, sessions, files, fds, reached>>

-----------------------------------------------------------------------------
(* The threads.  Each drops its stream when it ends, however it ends.      *)

(* sendto or write.  With an invalid descriptor it fails, which leaves     *)
(* only ForwarderEnds.                                                     *)
ForwarderWrites ==
  /\ forwarder = "running"
  /\ clone_fd # NoFd
  /\ reached' = reached \cup {files[clone_fd]}
  /\ UNCHANGED <<uris, main, is_closed, sessions, files, fds, threads>>

DispatcherEnds ==
  /\ dispatcher = "running"
  /\ dispatcher' = "ended"
  /\ files' = Dropped(input_fd, input_uri = "stdin")
  /\ UNCHANGED <<uris, main, is_closed, sessions, fds, forwarder, reached>>

ForwarderEnds ==
  /\ forwarder = "running"
  /\ forwarder' = "ended"
  /\ files' = Dropped(clone_fd, output_uri = "stdout")
  /\ UNCHANGED <<uris, main, is_closed, sessions, fds, dispatcher, reached>>

Terminated ==
  /\ main \in {"returned", "failed"} \/ sessions = MaxSessions
  /\ UNCHANGED vars

Next ==
  \/ Listen \/ Connect \/ Fails \/ NewFails \/ Accept \/ NoMoreStreams
  \/ Clone \/ CloneFails \/ Start \/ StartFails \/ WaitReturns
  \/ ForwarderWrites \/ DispatcherEnds \/ ForwarderEnds
  \/ Terminated

Spec == Init /\ [][Next]_vars

-----------------------------------------------------------------------------
(* Whatever a forwarder has written went to the output of the process, and *)
(* a dispatcher reads the input of its own session: no thread ever uses a  *)
(* descriptor that was closed or given out again.                          *)
ThreadsUseTheirStreams ==
  /\ reached \subseteq {Output}
  /\ dispatcher = "running" => files[input_fd] = Input(sessions)

(* Between two sessions the process has exactly its listener, its output   *)
(* and the standard streams open: any number of sessions, failed ones      *)
(* included, neither exhaust the descriptors nor close the output.         *)
SessionsLeaveNothingOpen ==
  main = "accept" =>
    /\ files[output_fd] = Output
    /\ \A fd \in Fd \ FreeFds : fd \in 0 .. 2 \cup {listener_fd, output_fd}
=============================================================================
