---------------------------- MODULE RemoteCommand ---------------------------
(* A command that gfsd runs for a client (gfs_client.c, gfs_client_command):*)
(* its input, its two outputs, signals and its end share one connection, and*)
(* the client serves them and its own descriptors in one loop of select.    *)
(* A message is one element of a stream, a byte of input or output one more.*)
EXTENDS Integers, Sequences, IoBuffer

CONSTANTS Commands,   \* [input: bytes the user types, output: what the command
                      \* writes, pieces [fd, bytes], awaits: it reads to the end]
          PipeSize,   \* SO_SNDBUF and SO_RCVBUF: the size of the three buffers
          WireSize,   \* what the socket holds in each direction
          MaxSignals, \* bound: signals the program sends
          MaxFaults   \* bound: local writes that fail, or gfsd gone

VARIABLES cc,     \* struct gfs_client_command_context, and where the program is (at)
          desc,   \* the local descriptors: input left, end of input, what was written
          down,   \* from gfsd to the client
          up,     \* from the client to gfsd
          gfsd,   \* the command and the part of gfsd that serves it
          faults  \* history: failures so far

cmdvars == <<cc, desc, down, up, gfsd, faults>>

FDESC_STDIN  == 0
FDESC_STDOUT == 1
FDESC_STDERR == 2
Outputs == {FDESC_STDOUT, FDESC_STDERR}

\* The connection, as select reports it in the two sets.
CONN_READABLE == 3
CONN_WRITABLE == 4

FD_INPUT(n)      == [m |-> "input", n |-> n]
FD_OUTPUT(fd, n) == [m |-> "output", fd |-> fd, n |-> n]
SEND_SIGNAL      == [m |-> "signal"]
EXITED           == [m |-> "exited"]
EXIT_STATUS      == [m |-> "status"]
Byte(x)          == [m |-> "byte", x |-> x]

Bytes(s) == [i \in 1..Len(s) |-> Byte(s[i])]
\* A message that is taken for bytes is the byte 0.
Values(ms) == [i \in 1..Len(ms) |-> IF ms[i].m = "byte" THEN ms[i].x ELSE 0]

(***************************************************************************)
(* gfsd and the command                                                    *)
(***************************************************************************)
\* A piece of output, the empty one for the end of a descriptor.
GfsdOutput ==
  /\ gfsd.todo # <<>>
  /\ LET p == Head(gfsd.todo)
     IN  /\ Len(down) + Len(p.bytes) < WireSize
         /\ down' = down \o <<FD_OUTPUT(p.fd, Len(p.bytes))>> \o Bytes(p.bytes)
         /\ gfsd' = [gfsd EXCEPT !.todo = Tail(@), !.wrote[p.fd] = @ \o p.bytes]
  /\ UNCHANGED <<cc, desc, up, faults>>

GfsdExited ==
  /\ gfsd.todo = <<>> /\ ~gfsd.exited
  /\ gfsd.awaits => gfsd.eof \/ gfsd.signalled
  /\ Len(down) < WireSize
  /\ gfsd' = [gfsd EXCEPT !.exited = TRUE]
  /\ down' = Append(down, EXITED)
  /\ UNCHANGED <<cc, desc, up, faults>>

\* A message of the client.  What comes where another thing was announced
\* leaves the two out of step.
GfsdInput ==
  /\ up # <<>> /\ gfsd.step
  /\ LET x == Head(up)
     IN  /\ gfsd' = CASE gfsd.due > 0 /\ x.m = "byte" ->
                           [gfsd EXCEPT !.due = @ - 1, !.read = Append(@, x.x)]
                      [] gfsd.due = 0 /\ x.m = "input" ->
                           [gfsd EXCEPT !.due = x.n, !.eof = @ \/ x.n = 0]
                      [] gfsd.due = 0 /\ x.m = "signal" ->
                           [gfsd EXCEPT !.signalled = TRUE]
                      [] gfsd.due = 0 /\ x.m = "status" -> gfsd
                      [] OTHER -> [gfsd EXCEPT !.step = FALSE]
         /\ down' = IF x.m = "status" /\ gfsd.due = 0 THEN Append(down, EXIT_STATUS) ELSE down
  /\ up' = Tail(up)
  /\ UNCHANGED <<cc, desc, faults>>

\* gfsd is gone, with a part of what it sent.
GfsdGone ==
  /\ faults < MaxFaults /\ ~gfsd.gone
  /\ faults' = faults + 1
  /\ \E n \in 0..Len(down) : down' = SubSeq(down, 1, n)
  /\ gfsd' = [gfsd EXCEPT !.gone = TRUE]
  /\ up' = <<>>
  /\ UNCHANGED <<cc, desc>>

\* The command, and the part of gfsd that reads.
GfsdCommand == ~gfsd.gone /\ (GfsdOutput \/ GfsdExited)
GfsdServes  == ~gfsd.gone /\ GfsdInput

(***************************************************************************)
(* The client's loop: gfs_client_command_io                                *)
(***************************************************************************)
gfs_client_command_is_running(c) == c.server_state \notin {"exited", "aborted"}

\* gfs_client_command_fd_set: what select is asked about ...
WantsConnRead(c) == \/ c.server_state = "neutral"
                    \/ c.server_state = "output" /\ IsReadable(c.buf[c.server_output_fd])
WantsConnWrite(c) == \/ c.client_state = "neutral" /\ (c.pending \/ IsWritable(c.buf[FDESC_STDIN]))
                     \/ c.client_state = "output"

\* ... and what of it is ready: the user's descriptors always are.
Ready ==
  {d \in FDESC_STDIN..CONN_WRITABLE :
     \/ d = FDESC_STDIN   /\ IsReadable(cc.buf[FDESC_STDIN])
     \/ d \in Outputs     /\ IsWritable(cc.buf[d])
     \/ d = CONN_READABLE /\ WantsConnRead(cc) /\ (down # <<>> \/ gfsd.gone)
     \/ d = CONN_WRITABLE /\ WantsConnWrite(cc) /\ (Len(up) < WireSize \/ gfsd.gone)}

\* A state of the client's side, on which each part of gfs_client_command_io_fd_set
\* works in turn; failed: it returned an error.
Side == [cc |-> [cc EXCEPT !.at = IF @ = "sent" THEN "loop" ELSE @],
         desc |-> desc, down |-> down, up |-> up, faults |-> faults, failed |-> FALSE]

SetBuf(s, fd, b) == [s EXCEPT !.cc.buf[fd] = b]

Abort(s) == [s EXCEPT !.cc.server_state = "aborted", !.failed = TRUE]

\* gfarm_iobuffer_read of stdin: some of what was typed, or its end.
ReadStdin(s) ==
  LET b == s.cc.buf[FDESC_STDIN]
      most == Least(ReadMost(b, Space(b)), Len(s.desc.input))
  IN  IF s.desc.input = <<>> THEN {SetBuf(s, FDESC_STDIN, [b EXCEPT !.read_eof = TRUE])}
      ELSE {[SetBuf(s, FDESC_STDIN, Received(b, Space(b), SubSeq(s.desc.input, 1, n)))
             EXCEPT !.desc.input = SubSeq(@, n + 1, Len(@)),
                    !.desc.given = @ \o SubSeq(s.desc.input, 1, n)] : n \in 1..most}

\* gfarm_iobuffer_write to an output: some of it, or an error, for which the
\* buffer is purged.
WriteOutput(s, fd) ==
  LET b == s.cc.buf[fd]
  IN  IF IsEmpty(b) THEN {SetBuf(s, fd, Closed(b))}
      ELSE {[SetBuf(s, fd, Consumed(b, n)) EXCEPT !.desc.wrote[fd] = @ \o Taken(b, n)] :
              n \in 1..Len(b.bytes)}
           \cup {[SetBuf(s, fd, Consumed(b, Len(b.bytes))) EXCEPT !.faults = @ + 1] :
                   k \in {1} \cap 1..(MaxFaults - s.faults)}

\* A message in the neutral state.
RecvMessage(s) ==
  LET x == Head(s.down)
      t == [s EXCEPT !.down = Tail(@)]
  IN  CASE s.down = <<>> -> Abort(s)
        [] x.m = "exited" -> [t EXCEPT !.cc.server_state = "exited"]
        [] x.m = "output" /\ x.n <= 0 -> [t EXCEPT !.cc.buf[x.fd].read_eof = TRUE]
        [] x.m = "output" /\ x.n > 0 ->
             [t EXCEPT !.cc.server_state = "output", !.cc.server_output_fd = x.fd,
                       !.cc.server_output_residual = x.n]
        [] OTHER -> Abort(t)

\* Mutant: as much as there is room for.
ReadOutputAll(s) ==
  LET b == s.cc.buf[s.cc.server_output_fd]
      most == Least(ReadMost(b, Space(b)), Len(s.down))
  IN  {LET t == SetBuf(s, s.cc.server_output_fd,
                       Received(b, Space(b), Values(SubSeq(s.down, 1, n))))
           left == s.cc.server_output_residual - n
       IN  [t EXCEPT !.down = SubSeq(@, n + 1, Len(@)),
                     !.cc.server_output_residual = left,
                     !.cc.server_state = IF left <= 0 THEN "neutral" ELSE "output"] : n \in 1..most}

\* Bytes of an output, up to the end of the piece.
ReadOutput(s) ==
  LET fd == s.cc.server_output_fd
      b == s.cc.buf[fd]
      most == Least(ReadMost(b, s.cc.server_output_residual), Len(s.down))
  IN  IF s.down = <<>> THEN {Abort([s EXCEPT !.cc.buf[fd].read_eof = TRUE])}
      ELSE {LET t == SetBuf(s, fd, Received(b, s.cc.server_output_residual,
                                            Values(SubSeq(s.down, 1, n))))
                left == s.cc.server_output_residual - n
            IN  [t EXCEPT !.down = SubSeq(@, n + 1, Len(@)),
                          !.cc.server_output_residual = left,
                          !.cc.server_state = IF left = 0 THEN "neutral" ELSE "output"] :
              n \in 1..most}

\* gfarm_iobuffer_avail_length: 0 at the end of the input.
InputAvail(s) == Len(s.cc.buf[FDESC_STDIN].bytes)

\* A message to gfsd: a signal, which stays pending, or the length of the input.
SendMessage(s) ==
  IF gfsd.gone THEN Abort(s)
  ELSE IF s.cc.pending THEN [s EXCEPT !.up = Append(@, SEND_SIGNAL)]
  ELSE IF IsWritable(s.cc.buf[FDESC_STDIN])
  THEN [s EXCEPT !.up = Append(@, FD_INPUT(InputAvail(s))), !.cc.client_state = "output",
                 !.cc.client_output_residual = InputAvail(s)]
  ELSE s

\* Bytes of the input, up to the length that was sent.
WriteInput(s) ==
  LET b == s.cc.buf[FDESC_STDIN]
      most == Least(s.cc.client_output_residual, WireSize - Len(s.up))
  IN  IF gfsd.gone /\ ~IsEmpty(b) THEN {Abort(s)}
      ELSE IF IsEmpty(b)
      THEN {[SetBuf(s, FDESC_STDIN, Closed(b))
             EXCEPT !.cc.client_state = IF s.cc.client_output_residual = 0 THEN "neutral" ELSE @]}
      ELSE IF s.cc.client_output_residual <= 0 THEN {[s EXCEPT !.cc.client_state = "neutral"]}
      ELSE {LET left == s.cc.client_output_residual - n
            IN  [SetBuf(s, FDESC_STDIN, Consumed(b, n))
                 EXCEPT !.up = @ \o Bytes(Taken(b, n)),
                        !.cc.client_output_residual = left,
                        !.cc.client_state = IF left = 0 THEN "neutral" ELSE "output"] : n \in 1..most}

\* gfs_client_command_io_fd_set: stdin, stdout and stderr, then the connection
\* in both directions.
AfterStdin(d, s)     == IF FDESC_STDIN \in d THEN ReadStdin(s) ELSE {s}
AfterOutput(fd, d, s) == IF fd \in d THEN WriteOutput(s, fd) ELSE {s}
AfterConnRead(d, s)  == IF CONN_READABLE \notin d THEN {s}
                        ELSE IF s.cc.server_state = "neutral" THEN {RecvMessage(s)}
                        ELSE IF s.cc.server_state = "output" THEN ReadOutput(s) ELSE {s}
AfterConnWrite(d, s) == IF CONN_WRITABLE \notin d \/ s.failed \/ ~gfs_client_command_is_running(s.cc)
                        THEN {s}
                        ELSE IF s.cc.client_state = "neutral" THEN {SendMessage(s)}
                        ELSE WriteInput(s)

Become(s) == /\ cc' = s.cc /\ desc' = s.desc /\ down' = s.down /\ up' = s.up
             /\ faults' = s.faults
             /\ UNCHANGED gfsd

\* gfs_client_command_io, when select reports the descriptors d.
gfs_client_command_io(d) ==
  \E s1 \in AfterStdin(d, Side) :
  \E s2 \in AfterOutput(FDESC_STDOUT, d, s1) :
  \E s3 \in AfterOutput(FDESC_STDERR, d, s2) :
  \E s4 \in AfterConnRead(d, s3) :
  \E s5 \in AfterConnWrite(d, s4) : Become(s5)

(***************************************************************************)
(* The program                                                             *)
(***************************************************************************)
Running == cc.at \in {"loop", "signal", "sent", "result"} /\ gfs_client_command_is_running(cc)

\* One turn, in gfs_client_command, in gfs_client_command_send_signal, which waits
\* for an earlier signal, or in gfs_client_command_result.
Turn == /\ Running
        /\ \E d \in (SUBSET Ready) \ {{}} : gfs_client_command_io(d)

\* gfs_client_command_send_signal: the signal is pending, and a turn gives it the
\* chance to be sent, or it waits for an earlier one.
SendSignal ==
  /\ cc.at = "loop" /\ Running /\ cc.signals < MaxSignals
  /\ cc' = [cc EXCEPT !.signals = @ + 1, !.pending = TRUE,
                      !.at = IF cc.pending THEN "signal" ELSE "sent"]
  /\ UNCHANGED <<desc, down, up, gfsd, faults>>

\* gfs_client_command_close_stdin.
CloseStdin ==
  /\ cc.at = "loop" /\ Running
  /\ cc' = [cc EXCEPT !.buf[FDESC_STDIN].read_eof = TRUE]
  /\ UNCHANGED <<desc, down, up, gfsd, faults>>

\* Both loops end with the command.
CommandResult == /\ cc.at \in {"loop", "signal"} /\ ~gfs_client_command_is_running(cc)
          /\ cc' = [cc EXCEPT !.at = "result"]
          /\ UNCHANGED <<desc, down, up, gfsd, faults>>

\* gfs_client_command_result: the rest of the outputs, ...
FlushOutput == /\ cc.at = "result" /\ ~gfs_client_command_is_running(cc)
               /\ \E fd \in Outputs : /\ IsWritable(cc.buf[fd])
                                      /\ \E s \in WriteOutput(Side, fd) : Become(s)

\* ... and the request for the status.
AskStatus == /\ cc.at = "result" /\ ~gfs_client_command_is_running(cc)
             /\ \A fd \in Outputs : ~IsWritable(cc.buf[fd])
             /\ Len(up) < WireSize
             /\ cc' = [cc EXCEPT !.at = IF gfsd.gone THEN "failed" ELSE "status"]
             /\ up' = IF gfsd.gone THEN up ELSE Append(up, EXIT_STATUS)
             /\ UNCHANGED <<desc, down, gfsd, faults>>

GetStatus == /\ cc.at = "status"
             /\ down # <<>> \/ gfsd.gone
             /\ cc' = [cc EXCEPT !.at = IF down = <<>> THEN "failed"
                                        ELSE IF Head(down) = EXIT_STATUS THEN "done" ELSE "confused"]
             /\ UNCHANGED <<desc, down, up, gfsd, faults>>

\* After gfs_client_command_request.
CommandInit ==
  \E c \in Commands :
    /\ cc = [at |-> "loop", server_state |-> "neutral", server_output_fd |-> FDESC_STDOUT,
             server_output_residual |-> 0, client_state |-> "neutral", client_output_residual |-> 0,
             pending |-> FALSE, signals |-> 0,
             buf |-> [fd \in {FDESC_STDIN} \cup Outputs |-> NewBuffer(PipeSize)]]
    /\ desc = [input |-> c.input, given |-> <<>>, wrote |-> [fd \in Outputs |-> <<>>]]
    /\ down = <<>> /\ up = <<>>
    /\ gfsd = [todo |-> c.output, awaits |-> c.awaits, wrote |-> [fd \in Outputs |-> <<>>],
               read |-> <<>>, due |-> 0, eof |-> FALSE, signalled |-> FALSE, exited |-> FALSE,
               gone |-> FALSE, step |-> TRUE]
    /\ faults = 0

Program == Turn \/ CommandResult \/ FlushOutput \/ AskStatus \/ GetStatus

CommandNext == Program \/ SendSignal \/ CloseStdin \/ GfsdCommand \/ GfsdServes \/ GfsdGone

\* A descriptor that stays ready is reported sooner or later.
FullTurn == Running /\ Ready # {} /\ gfs_client_command_io(Ready)

CommandClient == FullTurn \/ CommandResult \/ FlushOutput \/ AskStatus \/ GetStatus

CommandSpec == /\ CommandInit /\ [][CommandNext]_cmdvars
               /\ WF_cmdvars(CommandClient)
               /\ WF_cmdvars(GfsdCommand) /\ WF_cmdvars(GfsdServes)

(***************************************************************************)
(* Properties                                                              *)
(***************************************************************************)
Prefix(s, t) == Len(s) <= Len(t) /\ s = SubSeq(t, 1, Len(s))

\* The command exited while a piece of its input was announced but not sent.
Midway == cc.server_state = "exited" /\ cc.client_state = "output" /\ cc.client_output_residual > 0

\* What is written to a local output is what the command wrote to it, in order,
\* what the command reads is what was typed, and neither end takes a byte for a
\* message, however the pieces are cut by the sizes of buffers and socket; after
\* gfs_client_command nothing is missing, unless a local write failed or gfsd is
\* gone, and the input that is left when a command ends early is out of step.
Forwarded ==
  /\ faults = 0 => \A fd \in Outputs : Prefix(desc.wrote[fd], gfsd.wrote[fd])
  /\ Prefix(gfsd.read, desc.given)
  /\ gfsd.step \/ Midway
  /\ cc.at # "confused"
  /\ cc.at = "done" /\ faults = 0 => desc.wrote = gfsd.wrote
  /\ \A fd \in DOMAIN cc.buf : WithinArray(cc.buf[fd])

\* The end of a command.  Two ways not to come to it are the code's: Midway, and a
\* pending signal, which is sent for ever in place of the input that the command awaits.
CommandEnded == \/ cc.at \in {"done", "failed"}
                \/ Midway
                \/ cc.pending /\ gfsd.awaits
=============================================================================
