-------------------------------- MODULE NetIO --------------------------------
(***************************************************************************)
(* The calls of net_io.c, os/unix/net_io.c and openssl/net_io_ssl.c on one *)
(* connection, plain or TLS: connect, read, write, their non-blocking      *)
(* forms and the two ways to close.  The socket is external: `in` bytes    *)
(* have arrived, the kernel takes `room` more of ours, and the peer may    *)
(* end the stream, reset the connection or refuse it.  A system call that  *)
(* is interrupted by a signal is tried again at once and is not shown,     *)
(* except in poll(2), whose callers decide what to do.                     *)
(***************************************************************************)
EXTENDS Integers

CONSTANTS
  Kinds,        \* subset of {"raw", "tls"}
  Sizes,        \* the lengths of a read or a write
  Buffer,       \* bytes the kernel holds in either direction
  MaxIn,        \* bytes the peer sends
  MaxCalls, MaxSignals,
  Resets        \* whether the peer may reset the connection

VARIABLES kind, peer, in, room, fin, sent, fd, connected, calls, signals,
          call,      \* the call in progress
          out, gap,  \* bytes of ours the kernel has; whether one was skipped or sent twice
          ended      \* the last call that returned
net == <<kind, peer, in, room, fin, sent>>
vars == <<kind, peer, in, room, fin, sent, fd, connected, calls, signals, call, out, gap, ended>>

ERROR == -1
AGAIN == -2       \* EAGAIN, or BIO_should_retry
Idle == [op |-> "none", pc |-> "idle", count |-> 0, remains |-> 0, b |-> 0, base |-> 0, late |-> FALSE]
NoCall == [op |-> "none", ret |-> 0, count |-> 0, moved |-> 0, late |-> FALSE]
Min2(a, b) == IF a < b THEN a ELSE b

\* A server's connection comes from accept(2); a client's is made by the connect calls.
Init ==
  /\ kind \in Kinds
  /\ \/ peer = "none" /\ fd = "none" /\ connected = FALSE
     \/ peer = "up" /\ fd = "open" /\ connected = TRUE
  /\ in = 0 /\ room = Buffer /\ fin = FALSE /\ sent = 0 /\ out = 0 /\ gap = FALSE
  /\ calls = 0 /\ signals = 0 /\ call = Idle /\ ended = NoCall

(* ------------------------- the socket and the peer --------------------- *)
SysRead(n) == CASE peer = "reset" -> {ERROR} [] peer # "reset" /\ in > 0 -> 1..Min2(n, in)
                [] peer # "reset" /\ in = 0 -> IF fin THEN {0} ELSE {AGAIN}
SysWrite(n) == IF peer = "reset" THEN {ERROR} ELSE IF room = 0 THEN {AGAIN} ELSE 1..Min2(n, room)
\* ci_wait_for_data: "error" is -1, "retry" ci_wait_should_retry, "timeout" 0
ci_wait_for_data(what) ==
  IF peer \in {"reset", "refused"} THEN {"error"}
  ELSE IF (what = "read" /\ (in > 0 \/ fin)) \/ (what = "write" /\ room > 0 /\ peer = "up") THEN {"ready"}
  ELSE {"timeout"} \cup (IF signals < MaxSignals THEN {"retry"} ELSE {})
Signal(w) == signals' = IF w = "retry" THEN signals + 1 ELSE signals

PeerSends == /\ peer = "up" /\ ~fin /\ in < Buffer /\ sent < MaxIn
             /\ in' = in + 1 /\ sent' = sent + 1
             /\ UNCHANGED <<kind, peer, room, fin, fd, connected, calls, signals, call, out, gap, ended>>
PeerTakes == /\ peer = "up" /\ room < Buffer /\ room' = room + 1
             /\ UNCHANGED <<kind, peer, in, fin, sent, fd, connected, calls, signals, call, out, gap, ended>>
PeerChanges == /\ \/ peer = "up" /\ ~fin /\ fin' = TRUE /\ UNCHANGED peer
                  \/ peer = "up" /\ Resets /\ peer' = "reset" /\ UNCHANGED fin
                  \/ peer = "pending" /\ peer' \in {"up", "refused"} /\ UNCHANGED fin
               /\ UNCHANGED <<kind, in, room, sent, fd, connected, calls, signals, call, out, gap, ended>>

(* ------------------------------ the calls ------------------------------ *)
\* A connection whose call failed is closed, never used again (request.c, request_common.c).
Usable == fd = "open" /\ connected /\ ended.ret >= 0
Begin(op, pc, n) ==
  /\ call = Idle /\ calls < MaxCalls
  /\ call' = [op |-> op, pc |-> pc, count |-> n, remains |-> n, b |-> 0, base |-> out, late |-> FALSE]
  /\ calls' = calls + 1
  /\ UNCHANGED <<net, fd, connected, signals, out, gap, ended>>
Start == \/ Usable /\ \E n \in Sizes, op \in {"read", "write", "read_nonblock", "write_nonblock"} : Begin(op, "io", n)
         \/ fd = "open" /\ connected /\ Begin("linger_close", "shutdown", 0)
         \/ fd = "open" /\ connected /\ Begin("hard_close", "close", 0)
         \/ fd = "none" /\ Begin("connect", "connect", 0)
Return(r, moved) ==
  /\ call' = Idle
  /\ ended' = [op |-> call.op, ret |-> r, count |-> call.count, moved |-> moved, late |-> call.late]
Goto(pc) == call' = [call EXCEPT !.pc = pc] /\ UNCHANGED ended
Same == UNCHANGED <<kind, peer, fin, sent, connected, fd, calls>>

\* ci_read and ci_read_nonblock, and their TLS forms: one read; a second one after the wait.
Reads ==
  /\ call.op \in {"read", "read_nonblock"} /\ call.pc \in {"io", "again"}
  /\ \E r \in SysRead(call.count) :
       /\ in' = in - (IF r > 0 THEN r ELSE 0)
       /\ CASE r > 0 -> Return(r, r)
            [] r = AGAIN /\ call.op = "read_nonblock" -> Return(0, 0)
            [] r = AGAIN /\ call.op = "read" /\ call.pc = "io" -> Goto("wait")
            [] OTHER -> Return(IF r = 0 /\ call.op = "read" /\ kind = "tls" THEN 0 ELSE ERROR, 0)
  /\ Same /\ UNCHANGED <<room, signals, out, gap>>
\* `while (ret & ci_wait_should_retry)` holds for -1 too; the TLS form reads again only after a timeout.
ReadWaits ==
  /\ call.op = "read" /\ call.pc = "wait"
  /\ \E w \in ci_wait_for_data("read") :
       /\ Signal(w)
       /\ IF kind = "raw"
            THEN CASE w \in {"retry", "error"} -> UNCHANGED <<call, ended>>
                   [] w = "timeout" -> /\ call' = Idle
                                       /\ ended' = [op |-> "read", ret |-> ERROR, count |-> call.count, moved |-> 0, late |-> TRUE]
                   [] w = "ready" -> Goto("again")
            ELSE IF w = "timeout" THEN Goto("again") ELSE Return(ERROR, 0)
  /\ Same /\ UNCHANGED <<in, room, out, gap>>

\* The bytes a write hands to the kernel start at b; they belong at the end of what it has.
Hands_from_start(r) == call.base + 0
Hands(r) == call.base + call.b
\* ci_write, ci_write_nonblock and their TLS forms.
Writes ==
  /\ call.op \in {"write", "write_nonblock"} /\ call.pc \in {"io", "again"}
  /\ \E r \in SysWrite(call.remains) :
       /\ room' = room - (IF r > 0 THEN r ELSE 0) /\ out' = out + (IF r > 0 THEN r ELSE 0)
       /\ gap' = (gap \/ (r > 0 /\ Hands(r) # out))
       /\ CASE r > 0 /\ call.op = "write" /\ r < call.remains ->
                 call' = [call EXCEPT !.b = @ + r, !.remains = @ - r, !.pc = "io"] /\ UNCHANGED ended
            [] r > 0 /\ call.op = "write" /\ r = call.remains ->
                 Return(IF kind = "raw" THEN call.count ELSE r, call.b + r)
            [] r > 0 /\ call.op = "write_nonblock" -> Return(r, r)
            [] r = AGAIN /\ call.op = "write_nonblock" -> Return(0, 0)
            [] r = AGAIN /\ call.op = "write" /\ (call.pc = "io" \/ kind = "tls") -> Goto("wait")
            [] OTHER -> Return(ERROR, call.b)
  /\ Same /\ UNCHANGED <<in, signals>>
WriteWaits ==
  /\ call.op = "write" /\ call.pc = "wait"
  /\ \E w \in ci_wait_for_data("write") :
       /\ Signal(w)
       /\ CASE w = "ready" -> Goto("again")
            [] w = "retry" -> IF kind = "raw" THEN UNCHANGED <<call, ended>> ELSE Goto("again")
            [] w = "error" -> IF kind = "raw" THEN UNCHANGED <<call, ended>> ELSE Return(ERROR, call.b)
            [] w = "timeout" -> Return(ERROR, call.b)
  /\ Same /\ UNCHANGED <<in, room, out, gap>>

\* ci_linger_close: reads what still arrives until nothing does; the TLS form only sets SO_LINGER.
ci_linger_close ==
  /\ call.op = "linger_close"
  /\ \/ /\ call.pc = "shutdown" /\ Goto(IF kind = "tls" \/ peer = "reset" THEN "close" ELSE "drain")
        /\ UNCHANGED <<in, fd, signals>>
     \/ /\ call.pc = "drain"
        /\ \E w \in ci_wait_for_data("read") :
             /\ Signal(w)
             /\ IF w = "timeout" THEN Goto("close") /\ UNCHANGED in
                ELSE \E r \in SysRead(2) : in' = in - (IF r > 0 THEN r ELSE 0) /\ Goto(IF r > 0 THEN "drain" ELSE "close")
        /\ UNCHANGED fd
     \/ call.pc = "close" /\ fd' = "closed" /\ Return(1, 0) /\ UNCHANGED <<in, signals>>
  /\ UNCHANGED <<kind, peer, fin, sent, room, connected, calls, out, gap>>
ci_connection_hard_close ==
  /\ call.op = "hard_close" /\ fd' = "closed" /\ Return(1, 0)
  /\ UNCHANGED <<net, connected, calls, signals, out, gap>>

\* ci_connect_to and ci_tls_connect over their non-blocking steps; a failed connection is destroyed.
Destroyed == fd' = "closed" /\ Return(ERROR, 0) /\ UNCHANGED connected
ConnectWaits ==
  /\ call.op = "connect" /\ call.pc = "wait"
  /\ \E w \in ci_wait_for_data("write") :
       /\ Signal(w)
       /\ CASE w = "retry" -> UNCHANGED <<call, ended, fd, connected>>
            [] w = "ready" -> \/ connected' = TRUE /\ Return(1, 0) /\ UNCHANGED fd
                              \/ kind = "tls" /\ UNCHANGED <<call, ended, fd, connected>>    \* the handshake goes on
                              \/ Destroyed                                               \* SO_ERROR, getsockname, TLS
            [] w = "error" -> Destroyed
            [] w = "timeout" -> IF kind = "tls" THEN UNCHANGED <<call, ended, fd, connected>> ELSE Destroyed
  /\ UNCHANGED <<net, calls, out, gap>>
ConnectStarts ==
  /\ call.op = "connect" /\ call.pc = "connect"
  /\ \/ peer' = "pending" /\ fd' = "open" /\ Goto("wait") /\ UNCHANGED connected
     \/ Destroyed /\ UNCHANGED peer                    \* no address, no socket, or connect(2) fails at once
  /\ UNCHANGED <<kind, in, room, fin, sent, calls, signals, out, gap>>

Thread == Reads \/ ReadWaits \/ Writes \/ WriteWaits \/ ci_linger_close \/ ci_connection_hard_close
          \/ ConnectStarts \/ ConnectWaits
Next == Start \/ Thread \/ PeerSends \/ PeerTakes \/ PeerChanges
Spec == Init /\ [][Next]_vars
\* The thread that makes the call runs; a peer that was asked for a connection answers.
FairSpec == Spec /\ WF_vars(Thread) /\ WF_vars(peer = "pending" /\ PeerChanges)

(* ------------------------------ properties ----------------------------- *)
\* What a call returns is what happened: a write that does not fail has handed over every byte, once and in order; a read
\* that fails has taken nothing; and a read of a plain connection fails only when the peer is gone or its time is over.
CallsTrue ==
  /\ ~gap
  /\ ended.op = "write" /\ ended.ret > 0 => ended.moved = ended.count
  /\ ended.op \in {"read", "read_nonblock"} => ended.moved = IF ended.ret > 0 THEN ended.ret ELSE 0
  /\ ended.op = "read" /\ ended.ret < 0 /\ kind = "raw" => ended.late \/ fin \/ peer = "reset"
  /\ ended.op = "connect" => (ended.ret > 0 <=> connected) /\ (ended.ret < 0 => fd = "closed")
\* A call ends: what it waits for comes, or the time is over, or the connection is closed.  (Refuted: a wait that returns
\* -1 is repeated for ever, and so is the wait of a TLS connection whose time is over.)
CallEnds == (call # Idle) ~> (call = Idle)
\* A TLS read fails only when the peer is gone.  (Refuted: it also fails when data arrived while it waited.)
TlsReadTrue == ended.op = "read" /\ ended.ret < 0 => ended.late \/ fin \/ peer = "reset" \/ kind = "raw"
=============================================================================
