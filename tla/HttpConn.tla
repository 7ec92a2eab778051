------------------------------- MODULE HttpConn ------------------------------
(***************************************************************************)
(* The connection machinery of src/http_server.c: a pool of HTTP_MAX_CONN  *)
(* slots whose states are shared with lwIP as callback arguments, request  *)
(* assembly from TCP segments, one response per connection, and the close  *)
(* that hands the state back.  lwIP and the peer are external: what they   *)
(* may do is taken from the callbacks http_server.c registers.             *)
(*                                                                         *)
(* A request is a row of tokens, in order: the request line, the head of   *)
(* the Content-Length field up to a digit, its remaining digits, the blank *)
(* line, one token for each unit of body, and perhaps one behind the       *)
(* request.  A TCP segment carries any run of them.                        *)
(***************************************************************************)
EXTENDS Integers

CONSTANTS
    Conn,             \* connections a client may have open
    MaxConn,          \* HTTP_MAX_CONN
    MaxBody,          \* largest body a client sends, in units
    FormLimit,        \* HTTP_FORM_BODY_LIMIT, in units
    BufSize           \* HTTP_BUF_SIZE, in tokens

Free == "free"    \* a null pointer in http_states[]

ASSUME HttpAssumption ==
    /\ Free \notin Conn
    /\ MaxConn \in Nat \ {0} /\ MaxBody \in Nat /\ FormLimit \in Nat
    /\ BufSize \in Nat \ {0}

Header == 4
Request == [body : 0..MaxBody, extra : 0..1, reset : BOOLEAN]
NoRequest == [body |-> 0, extra |-> 0, reset |-> FALSE]
Tokens(r) == Header + r.body + r.extra

VARIABLES
    pcb,       \* lwIP's side: "none", "live", or "closing" once tcp_close() ran
    arg,       \* tcp_arg() and the callbacks still point to the state
    slot,      \* http_states[]: the connection whose state a slot holds
    st,        \* http_state_t of each connection, meaningful while arg holds
    request,   \* what the client of the connection is sending
    sending,   \* how many of its tokens it has sent
    reply,     \* "none", "inflight" or "acked": the response, seen from TCP
    answer,    \* what the response says
    runs,      \* history: how many times a handler ran on this connection
    rebooting, \* watchdog_reboot() has been called
    up         \* the main loop runs, and with it lwIP and every callback

vars == <<pcb, arg, slot, st, request, sending, reply, answer, runs, rebooting,
          up>>

State == [req_len : 0..(BufSize - 1), content_length : {-1} \cup 0..MaxBody,
          sent : BOOLEAN, done : BOOLEAN, reset_after_send : BOOLEAN]

Fresh == [req_len |-> 0, content_length |-> -1, sent |-> FALSE, done |-> FALSE,
          reset_after_send |-> FALSE]

Slot == 1..MaxConn

TypeOK ==
    /\ pcb \in [Conn -> {"none", "live", "closing"}]
    /\ arg \in [Conn -> BOOLEAN]
    /\ slot \in [Slot -> Conn \cup {Free}]
    /\ st \in [Conn -> State]
    /\ request \in [Conn -> Request]
    /\ sending \in [Conn -> 0..(Header + MaxBody + 1)]
    /\ reply \in [Conn -> {"none", "inflight", "acked"}]
    /\ answer \in [Conn -> {"none", "200", "413"}]
    /\ runs \in [Conn -> 0..2]
    /\ rebooting \in BOOLEAN /\ up \in BOOLEAN

Init ==
    /\ pcb = [c \in Conn |-> "none"]
    /\ arg = [c \in Conn |-> FALSE]
    /\ slot = [s \in Slot |-> Free]
    /\ st = [c \in Conn |-> Fresh]
    /\ request = [c \in Conn |-> NoRequest]
    /\ sending = [c \in Conn |-> 0]
    /\ reply = [c \in Conn |-> "none"]
    /\ answer = [c \in Conn |-> "none"]
    /\ runs = [c \in Conn |-> 0]
    /\ rebooting = FALSE /\ up = TRUE
------------------------------------------------------------------------------
\* http_accept_cb(): a zeroed state is allocated and takes the first free slot.
\* Without memory or a free slot lwIP drops the connection and nothing changes.
Accept(c) ==
    /\ up /\ pcb[c] = "none"
    /\ \E s \in Slot :
          /\ slot[s] = Free /\ \A q \in Slot : q < s => slot[q] # Free
          /\ slot' = [slot EXCEPT ![s] = c]
    /\ pcb' = [pcb EXCEPT ![c] = "live"]
    /\ arg' = [arg EXCEPT ![c] = TRUE]
    /\ \E r \in Request : request' = [request EXCEPT ![c] = r]
    /\ UNCHANGED <<st, sending, reply, answer, runs, rebooting, up>>

\* Mutant: lwIP forgets the state, the pool does not get its slot back.
ReleaseLeaks(c) ==
    /\ arg' = [arg EXCEPT ![c] = FALSE]
    /\ st' = [st EXCEPT ![c] = Fresh]
    /\ UNCHANGED slot

\* lwIP forgets the state, its slot is free again, and its memory is freed.
Release(c) ==
    /\ slot' = [s \in Slot |-> IF slot[s] = c THEN Free ELSE slot[s]]
    /\ arg' = [arg EXCEPT ![c] = FALSE]
    /\ st' = [st EXCEPT ![c] = Fresh]

\* http_close_conn(): unregister, release, tcp_close().
http_close_conn(c) == Release(c) /\ pcb' = [pcb EXCEPT ![c] = "closing"]

\* http_send_response(): tcp_write() may run out of memory, and then the
\* connection is closed with its callbacks still registered.
http_send_response(c, state, status) ==
    \/ /\ st' = [st EXCEPT ![c] = [state EXCEPT !.sent = TRUE, !.done = TRUE]]
       /\ reply' = [reply EXCEPT ![c] = "inflight"]
       /\ answer' = [answer EXCEPT ![c] = status]
       /\ UNCHANGED pcb
    \/ /\ st' = [st EXCEPT ![c] = [state EXCEPT !.sent = FALSE]]
       /\ pcb' = [pcb EXCEPT ![c] = "closing"]
       /\ UNCHANGED <<reply, answer>>

\* What strstr() and atoi() make of the first n tokens: a value cut off in its
\* digits is a smaller number (one unit), a missing one is 0.
ParsedLength(c, n) ==
    IF n >= 3 THEN request[c].body
    ELSE IF n = 2 /\ request[c].body > 0 THEN 1 ELSE 0
------------------------------------------------------------------------------
\* The peer sends a segment of k more tokens.
Segment(c, k) ==
    /\ up /\ pcb[c] = "live" /\ arg[c]
    /\ k > 0 /\ sending[c] + k <= Tokens(request[c])
    /\ sending' = [sending EXCEPT ![c] = @ + k]

\* http_recv_cb() on a connection that has been answered: the data is dropped.
RecvAfterDone(c, k) ==
    /\ Segment(c, k) /\ st[c].done
    /\ UNCHANGED <<pcb, arg, slot, st, request, reply, answer, runs, rebooting, up>>

\* The request does not fit the buffer.
RecvOverflow(c, k) ==
    /\ Segment(c, k) /\ ~st[c].done
    /\ st[c].req_len + k >= BufSize
    /\ http_send_response(c, st[c], "413")
    /\ UNCHANGED <<arg, slot, request, runs, rebooting, up>>

\* The state once the segment is in the buffer; the length is parsed only once.
Received(c, k) ==
    LET n == st[c].req_len + k IN
    [st[c] EXCEPT !.req_len = n,
                  !.content_length = IF @ < 0 THEN ParsedLength(c, n) ELSE @]

\* Mutants: the buffer limit, or the answered request, is not checked.
BufferedBeyond(c, k) == Segment(c, k) /\ ~st[c].done
BufferedAgain(c, k) == Segment(c, k) /\ st[c].req_len + k < BufSize

Buffered(c, k) ==
    /\ Segment(c, k) /\ ~st[c].done
    /\ st[c].req_len + k < BufSize

\* Mutant: the body is not waited for.
CompleteHeader(s) == s.req_len >= Header

\* The blank line is there, and as much body as the parsed length asks for.
Complete(s) ==
    /\ s.req_len >= Header
    /\ s.content_length > 0 => s.req_len - Header >= s.content_length

RecvMore(c, k) ==
    /\ Buffered(c, k) /\ ~Complete(Received(c, k))
    /\ st' = [st EXCEPT ![c] = Received(c, k)]
    /\ UNCHANGED <<pcb, arg, slot, request, reply, answer, runs, rebooting, up>>

\* http_process_request(): the handler answers 413 to a length over its limit,
\* and /debug action=reset arms the reboot before it answers.
RecvDispatch(c, k) ==
    LET s == Received(c, k)
        tooLarge == s.content_length > FormLimit
    IN  /\ Buffered(c, k) /\ Complete(s)
        /\ runs' = [runs EXCEPT ![c] = IF @ < 2 THEN @ + 1 ELSE @]
        /\ http_send_response(c,
               [s EXCEPT !.reset_after_send = request[c].reset /\ ~tooLarge],
               IF tooLarge THEN "413" ELSE "200")
        /\ UNCHANGED <<arg, slot, request, rebooting, up>>

\* http_recv_cb() with no pbuf: the peer closed its sending side.
RecvFin(c) ==
    /\ up /\ pcb[c] # "none" /\ arg[c]
    /\ http_close_conn(c)
    /\ UNCHANGED <<request, sending, reply, answer, runs, rebooting, up>>

\* Mutant: the connection is left to the client to close.
SentStaysOpen(c) ==
    /\ up /\ pcb[c] # "none" /\ arg[c] /\ reply[c] = "inflight" /\ st[c].sent
    /\ reply' = [reply EXCEPT ![c] = "acked"]
    /\ rebooting' = (rebooting \/ st[c].reset_after_send)
    /\ UNCHANGED <<pcb, arg, slot, st, request, sending, answer, runs, up>>

\* http_sent_cb() at the first acknowledgement, of all of the reply or of a part of
\* it: the connection is closed, which still sends what is queued, an armed reset
\* fires, and later acknowledgements find no callback.  "acked" says no more.
Sent(c) ==
    /\ up /\ pcb[c] # "none" /\ arg[c] /\ reply[c] = "inflight" /\ st[c].sent
    /\ reply' = [reply EXCEPT ![c] = "acked"]
    /\ http_close_conn(c)
    /\ rebooting' = (rebooting \/ st[c].reset_after_send)
    /\ UNCHANGED <<request, sending, answer, runs, up>>

\* The same acknowledgement once the callbacks are gone: lwIP keeps it to itself.
AckedSilently(c) ==
    /\ up /\ pcb[c] # "none" /\ ~arg[c] /\ reply[c] = "inflight"
    /\ reply' = [reply EXCEPT ![c] = "acked"]
    /\ UNCHANGED <<pcb, arg, slot, st, request, sending, answer, runs, rebooting,
                   up>>

\* Nothing is left of the connection, on the wire or in lwIP.
Forget(c) ==
    /\ pcb' = [pcb EXCEPT ![c] = "none"]
    /\ request' = [request EXCEPT ![c] = NoRequest]
    /\ sending' = [sending EXCEPT ![c] = 0]
    /\ reply' = [reply EXCEPT ![c] = "none"]
    /\ answer' = [answer EXCEPT ![c] = "none"]
    /\ runs' = [runs EXCEPT ![c] = 0]

\* http_err_cb(): reset by the peer, retransmissions or a closing timer expired.
Err(c) ==
    /\ up /\ pcb[c] # "none" /\ arg[c]
    /\ Release(c)
    /\ Forget(c)
    /\ UNCHANGED <<rebooting, up>>

\* lwIP is done with a closed connection that has no callbacks any more.
Gone(c) ==
    /\ up /\ pcb[c] = "closing" /\ ~arg[c]
    /\ Forget(c)
    /\ UNCHANGED <<arg, slot, st, rebooting, up>>

\* http_server_deinit(), on the way out of app_main(): every state in the pool is
\* closed, and nothing runs lwIP any more.
http_server_deinit ==
    /\ up /\ up' = FALSE
    /\ slot' = [s \in Slot |-> Free]
    /\ arg' = [c \in Conn |-> arg[c] /\ \A s \in Slot : slot[s] # c]
    /\ st' = [c \in Conn |-> IF arg'[c] THEN st[c] ELSE Fresh]
    /\ pcb' = [c \in Conn |-> IF \E s \in Slot : slot[s] = c THEN "closing" ELSE pcb[c]]
    /\ UNCHANGED <<request, sending, reply, answer, runs, rebooting>>

\* The board starts again, after a shutdown or in the middle of anything.
Restart ==
    /\ pcb' = [c \in Conn |-> "none"] /\ arg' = [c \in Conn |-> FALSE]
    /\ slot' = [s \in Slot |-> Free] /\ st' = [c \in Conn |-> Fresh]
    /\ request' = [c \in Conn |-> NoRequest] /\ sending' = [c \in Conn |-> 0]
    /\ reply' = [c \in Conn |-> "none"] /\ answer' = [c \in Conn |-> "none"]
    /\ runs' = [c \in Conn |-> 0]
    /\ rebooting' = FALSE /\ up' = TRUE

Recv(c) ==
    \E k \in 1..(Header + MaxBody + 1) :
        RecvAfterDone(c, k) \/ RecvOverflow(c, k) \/ RecvMore(c, k) \/ RecvDispatch(c, k)

Next ==
    \/ \E c \in Conn : \/ Accept(c) \/ Recv(c) \/ RecvFin(c) \/ Sent(c)
                       \/ AckedSilently(c) \/ Err(c) \/ Gone(c)
    \/ http_server_deinit \/ Restart

\* lwIP ends every connection it was asked to close and every one with a reply
\* out: the peer acknowledges it, or retransmission gives up and reports it.
Fairness == \A c \in Conn :
    /\ WF_vars(reply[c] = "inflight" /\ (Sent(c) \/ Err(c)))
    /\ WF_vars(pcb[c] = "closing" /\ (RecvFin(c) \/ Err(c)))
    /\ WF_vars(Gone(c))

Spec == Init /\ [][Next]_vars
FairSpec == Spec /\ Fairness
------------------------------------------------------------------------------
(* Properties *)

\* A state belongs to exactly one slot and to the callbacks of one live
\* connection, or to nobody: none leaks, none is freed while lwIP can still
\* hand it to a callback (http_close_conn, http_err_cb, http_accept_cb).
StatesAreOwned ==
    /\ \A c \in Conn : arg[c] <=> \E s \in Slot : slot[s] = c
    /\ \A s, q \in Slot : slot[s] = slot[q] /\ slot[s] # Free => s = q
    /\ \A c \in Conn : arg[c] => pcb[c] # "none"

\* A connection runs one handler once, whatever follows the request on the
\* wire: a /write or a /clear is not repeated by trailing bytes.
HandledOnce == \A c \in Conn : runs[c] <= 1

\* A handler only ever sees a request whose whole body has arrived, provided the
\* one look that is taken at Content-Length came when the field was all there.
DispatchedWhole ==
    \A c \in Conn : runs[c] > 0 /\ st[c].content_length = request[c].body
        => sending[c] >= Header + request[c].body

\* A slot whose connection has been answered, or closed for want of memory,
\* comes back into the pool.
SlotsComeBack ==
    \A c \in Conn : arg[c] /\ (reply[c] = "inflight" \/ pcb[c] = "closing") ~> ~arg[c]
------------------------------------------------------------------------------
(* What the documentation says and the code does not keep *)

\* README.md "POST /debug": the board reboots after the reply to a reset has
\* been acknowledged.
AckedResetReboots ==
    \A c \in Conn : request[c].reset /\ answer[c] = "200" /\ reply[c] = "acked"
        => rebooting
==============================================================================
