---------------------------- MODULE HttpConnProofs ---------------------------
(* Ownership of connection states and the budget of one handler run for each   *)
(* connection, for every number of connections and slots, every size of a      *)
(* request and of the buffer.                                                  *)
EXTENDS HttpConn, TLAPS

\* A connection that may still dispatch has not run a handler, and neither has
\* one that does not exist.
Budget ==
    \A c \in Conn :
        /\ pcb[c] = "none" => runs[c] = 0
        /\ pcb[c] = "live" /\ arg[c] /\ ~st[c].done => runs[c] = 0
        /\ ~arg[c] => st[c] = Fresh
        /\ runs[c] <= 1

ConnInv == TypeOK /\ StatesAreOwned /\ Budget
------------------------------------------------------------------------------
LEMMA Sizes ==
    /\ Header \in Nat /\ Header = 4 /\ MaxBody \in Nat /\ BufSize \in Nat \ {0}
    /\ NoRequest \in Request /\ Fresh \in State
  BY HttpAssumption DEF Header, NoRequest, Request, Fresh, State

LEMMA TokensBound ==
    ASSUME NEW r \in Request
    PROVE  Tokens(r) \in 0..(Header + MaxBody + 1)
  BY Sizes DEF Request, Tokens

LEMMA InitConnInv == Init => ConnInv
<1> SUFFICES ASSUME Init PROVE ConnInv
  OBVIOUS
<1>1. TypeOK
  <2>1. 0 \in 0..(Header + MaxBody + 1) /\ 0 \in 0..2
    BY Sizes
  <2>2. st \in [Conn -> State] /\ request \in [Conn -> Request]
    BY Sizes, Zenon DEF Init
  <2>3. sending \in [Conn -> 0..(Header + MaxBody + 1)] /\ runs \in [Conn -> 0..2]
    BY <2>1, Zenon DEF Init
  <2>4. arg \in [Conn -> BOOLEAN] /\ slot \in [Slot -> Conn \cup {Free}]
    BY Zenon DEF Init
  <2>5. /\ pcb \in [Conn -> {"none", "live", "closing"}]
        /\ reply \in [Conn -> {"none", "inflight", "acked"}]
        /\ answer \in [Conn -> {"none", "200", "413"}]
    BY SMT DEF Init
  <2>6. rebooting \in BOOLEAN /\ up \in BOOLEAN
    BY Zenon DEF Init
  <2> QED BY <2>2, <2>3, <2>4, <2>5, <2>6, Zenon DEF TypeOK
<1>2. StatesAreOwned
  BY HttpAssumption DEF Init, StatesAreOwned
<1>3. Budget
  <2> SUFFICES ASSUME NEW c \in Conn
               PROVE  runs[c] = 0 /\ runs[c] <= 1 /\ st[c] = Fresh
    BY Zenon DEF Budget
  <2>1. runs[c] = 0 /\ st[c] = Fresh
    BY Zenon DEF Init
  <2> QED BY <2>1
<1> QED BY <1>1, <1>2, <1>3 DEF ConnInv
------------------------------------------------------------------------------
\* The parsed Content-Length stays in the range of what a client can send.
LEMMA ParsedBound ==
    ASSUME TypeOK, NEW c \in Conn, NEW n \in Int
    PROVE  ParsedLength(c, n) \in 0..MaxBody
<1>1. request[c].body \in 0..MaxBody
  BY DEF TypeOK, Request
<1> QED BY <1>1, Sizes DEF ParsedLength

\* What is in the buffer after a segment that fits is a state, still unanswered.
LEMMA ReceivedState ==
    ASSUME TypeOK, NEW c \in Conn, NEW k \in 1..(Header + MaxBody + 1), Buffered(c, k)
    PROVE  Received(c, k) \in State /\ ~Received(c, k).done
<1> DEFINE n == st[c].req_len + k
           len == IF st[c].content_length < 0 THEN ParsedLength(c, n)
                  ELSE st[c].content_length
<1>1. st[c] \in State
  BY DEF TypeOK
<1>2. n \in 0..(BufSize - 1)
  BY <1>1, Sizes DEF Buffered, State
<1>3. len \in {-1} \cup 0..MaxBody
  BY <1>1, <1>2, ParsedBound DEF State
<1>4. Received(c, k) = [[st[c] EXCEPT !.req_len = n] EXCEPT !.content_length = len]
  BY <1>1 DEF Received, State
<1> HIDE DEF n, len
<1>5. ~st[c].done
  BY DEF Buffered
<1> QED BY <1>1, <1>2, <1>3, <1>4, <1>5 DEF State

\* A response, or the close for want of memory, answers the connection or closes
\* it, and touches no other.
LEMMA ResponseStep ==
    ASSUME TypeOK, NEW c \in Conn, NEW s \in State, NEW status \in {"200", "413"},
           http_send_response(c, s, status)
    PROVE  /\ st' \in [Conn -> State]
           /\ pcb' \in [Conn -> {"none", "live", "closing"}]
           /\ reply' \in [Conn -> {"none", "inflight", "acked"}]
           /\ answer' \in [Conn -> {"none", "200", "413"}]
           /\ \A d \in Conn \ {c} : pcb'[d] = pcb[d] /\ st'[d] = st[d]
           /\ st'[c].done \/ pcb'[c] = "closing"
           /\ pcb[c] # "none" => pcb'[c] # "none"
<1>1. /\ [s EXCEPT !.sent = TRUE, !.done = TRUE] \in State
      /\ [s EXCEPT !.sent = TRUE, !.done = TRUE].done
      /\ [s EXCEPT !.sent = FALSE] \in State
  BY DEF State
<1>2. CASE /\ st' = [st EXCEPT ![c] = [s EXCEPT !.sent = TRUE, !.done = TRUE]]
           /\ reply' = [reply EXCEPT ![c] = "inflight"]
           /\ answer' = [answer EXCEPT ![c] = status]
           /\ UNCHANGED pcb
  BY <1>1, <1>2 DEF TypeOK
<1>3. CASE /\ st' = [st EXCEPT ![c] = [s EXCEPT !.sent = FALSE]]
           /\ pcb' = [pcb EXCEPT ![c] = "closing"]
           /\ UNCHANGED <<reply, answer>>
  BY <1>1, <1>3 DEF TypeOK
<1> QED BY <1>2, <1>3 DEF http_send_response

\* A released state leaves the callbacks and its slot together.
LEMMA ReleaseStep ==
    ASSUME TypeOK, StatesAreOwned, NEW c \in Conn, Release(c)
    PROVE  /\ arg' \in [Conn -> BOOLEAN]
           /\ slot' \in [Slot -> Conn \cup {Free}]
           /\ st' \in [Conn -> State] /\ st'[c] = Fresh /\ ~arg'[c]
           /\ \A d \in Conn \ {c} : arg'[d] = arg[d] /\ st'[d] = st[d]
           /\ \A d \in Conn : arg'[d] <=> \E q \in Slot : slot'[q] = d
           /\ \A q, r \in Slot : slot'[q] = slot'[r] /\ slot'[q] # Free => q = r
<1>1. /\ arg' \in [Conn -> BOOLEAN] /\ slot' \in [Slot -> Conn \cup {Free}]
      /\ st' \in [Conn -> State] /\ st'[c] = Fresh
  BY Sizes DEF Release, TypeOK
<1>2. ~arg'[c] /\ \A d \in Conn \ {c} : arg'[d] = arg[d] /\ st'[d] = st[d]
  BY DEF Release, TypeOK
<1>3. \A q \in Slot : slot'[q] = IF slot[q] = c THEN Free ELSE slot[q]
  BY DEF Release
<1>4. \A d \in Conn : (\E q \in Slot : slot'[q] = d) <=> (d # c /\ arg[d])
  BY <1>3, HttpAssumption DEF StatesAreOwned
<1>5. \A d \in Conn : arg'[d] <=> \E q \in Slot : slot'[q] = d
  BY <1>2, <1>4, Zenon
<1>6. \A q, r \in Slot : slot'[q] = slot'[r] /\ slot'[q] # Free => q = r
  BY <1>3 DEF StatesAreOwned
<1> QED BY <1>1, <1>2, <1>5, <1>6
------------------------------------------------------------------------------
LEMMA AcceptStep ==
    ASSUME ConnInv, NEW c \in Conn, Accept(c)
    PROVE  ConnInv'
<1> USE DEF ConnInv
<1>1. PICK s \in Slot : slot[s] = Free /\ slot' = [slot EXCEPT ![s] = c]
  BY DEF Accept
<1>2. PICK r \in Request : request' = [request EXCEPT ![c] = r]
  BY DEF Accept
<1>3. /\ pcb[c] = "none" /\ pcb' = [pcb EXCEPT ![c] = "live"]
      /\ arg' = [arg EXCEPT ![c] = TRUE]
      /\ UNCHANGED <<st, sending, reply, answer, runs, rebooting, up>>
  BY DEF Accept
<1>4. ~arg[c]
  BY <1>3 DEF StatesAreOwned
<1>5. TypeOK'
  BY <1>1, <1>2, <1>3 DEF TypeOK
<1>6. StatesAreOwned'
  <2>1. \A d \in Conn : arg'[d] = (d = c \/ arg[d])
    BY <1>3 DEF TypeOK
  <2>2. \A d \in Conn : (\E q \in Slot : slot'[q] = d)
                        <=> (d = c \/ \E q \in Slot : slot[q] = d)
    BY <1>1, HttpAssumption DEF TypeOK
  <2>3. \A q, p \in Slot : slot'[q] = slot'[p] /\ slot'[q] # Free => q = p
    BY <1>1, <1>4, HttpAssumption DEF StatesAreOwned, TypeOK
  <2>4. \A d \in Conn : arg'[d] => pcb'[d] # "none"
    BY <1>3, <2>1 DEF StatesAreOwned, TypeOK
  <2> QED BY <2>1, <2>2, <2>3, <2>4 DEF StatesAreOwned
<1>7. Budget'
  BY <1>3, <1>4 DEF Budget, TypeOK
<1> QED BY <1>5, <1>6, <1>7

LEMMA RecvStep ==
    ASSUME ConnInv, NEW c \in Conn, Recv(c)
    PROVE  ConnInv'
<1> USE DEF ConnInv
<1>1. PICK k \in 1..(Header + MaxBody + 1) :
         RecvAfterDone(c, k) \/ RecvOverflow(c, k) \/ RecvMore(c, k) \/ RecvDispatch(c, k)
  BY DEF Recv
<1>2. /\ Segment(c, k) /\ UNCHANGED <<arg, slot, request, rebooting, up>>
  BY <1>1 DEF RecvAfterDone, RecvOverflow, RecvMore, RecvDispatch, Buffered
<1>3. /\ pcb[c] = "live" /\ arg[c]
      /\ sending' \in [Conn -> 0..(Header + MaxBody + 1)]
  <2>1. request[c] \in Request /\ sending[c] \in 0..(Header + MaxBody + 1)
    BY DEF TypeOK
  <2>2. sending[c] + k \in 0..(Header + MaxBody + 1)
    BY <1>2, <2>1, TokensBound, Sizes DEF Segment
  <2> QED BY <1>2, <2>2 DEF Segment, TypeOK
<1>4. SUFFICES
         /\ st' \in [Conn -> State] /\ runs' \in [Conn -> 0..2]
         /\ pcb' \in [Conn -> {"none", "live", "closing"}]
         /\ reply' \in [Conn -> {"none", "inflight", "acked"}]
         /\ answer' \in [Conn -> {"none", "200", "413"}]
         /\ \A d \in Conn \ {c} : pcb'[d] = pcb[d] /\ st'[d] = st[d] /\ runs'[d] = runs[d]
         /\ pcb'[c] # "none"
         /\ pcb'[c] = "live" /\ ~st'[c].done => runs'[c] = 0
         /\ runs'[c] <= 1
  <2>1. TypeOK'
    BY <1>2, <1>3, <1>4 DEF TypeOK
  <2>2. StatesAreOwned'
    BY <1>2, <1>4 DEF StatesAreOwned
  <2>3. Budget'
    BY <1>2, <1>3, <1>4 DEF Budget
  <2> QED BY <2>1, <2>2, <2>3
<1>5. ~st[c].done => runs[c] = 0
  BY <1>3 DEF Budget
<1>6. CASE RecvAfterDone(c, k)
  BY <1>3, <1>6, Sizes DEF RecvAfterDone, TypeOK, Budget
<1>7. CASE RecvOverflow(c, k)
  <2>1. st[c] \in State /\ http_send_response(c, st[c], "413") /\ ~st[c].done
        /\ runs' = runs
    BY <1>7 DEF RecvOverflow, TypeOK
  <2> QED BY <1>3, <1>5, <2>1, ResponseStep DEF TypeOK
<1>8. CASE RecvMore(c, k)
  <2>1. Buffered(c, k) /\ st' = [st EXCEPT ![c] = Received(c, k)]
        /\ UNCHANGED <<pcb, reply, answer, runs>>
    BY <1>8 DEF RecvMore
  <2>2. Received(c, k) \in State /\ ~st[c].done
    BY <2>1, ReceivedState DEF Buffered
  <2> QED BY <1>3, <1>5, <2>1, <2>2 DEF TypeOK
<1>9. CASE RecvDispatch(c, k)
  <2> DEFINE s == Received(c, k)
             tooLarge == s.content_length > FormLimit
             armed == [s EXCEPT !.reset_after_send = request[c].reset /\ ~tooLarge]
             status == IF tooLarge THEN "413" ELSE "200"
  <2>1. Buffered(c, k) /\ http_send_response(c, armed, status)
        /\ runs' = [runs EXCEPT ![c] = IF @ < 2 THEN @ + 1 ELSE @]
    BY <1>9 DEF RecvDispatch
  <2>2. s \in State /\ ~st[c].done
    BY <2>1, ReceivedState DEF Buffered
  <2>3. armed \in State /\ status \in {"200", "413"}
    BY <2>2 DEF State
  <2>4. runs' \in [Conn -> 0..2] /\ runs'[c] = 1
        /\ \A d \in Conn \ {c} : runs'[d] = runs[d]
    BY <1>5, <2>1, <2>2 DEF TypeOK
  <2> HIDE DEF s, tooLarge, armed, status
  <2> QED BY <1>3, <2>1, <2>3, <2>4, ResponseStep
<1> QED BY <1>1, <1>6, <1>7, <1>8, <1>9

\* The three ways a state is handed back: the connection is closed, was
\* acknowledged, or is gone.
LEMMA HandBackStep ==
    ASSUME ConnInv, NEW c \in Conn, RecvFin(c) \/ Sent(c) \/ Err(c)
    PROVE  ConnInv'
<1> USE DEF ConnInv
<1>1. Release(c) /\ up' = up
  BY DEF RecvFin, Sent, Err, http_close_conn
<1>2. rebooting' \in BOOLEAN
  <2>1. st[c].reset_after_send \in BOOLEAN
    BY DEF TypeOK, State
  <2> QED BY <2>1 DEF RecvFin, Sent, Err, TypeOK
<1>3. /\ pcb' \in [Conn -> {"none", "live", "closing"}]
      /\ request' \in [Conn -> Request]
      /\ sending' \in [Conn -> 0..(Header + MaxBody + 1)]
      /\ reply' \in [Conn -> {"none", "inflight", "acked"}]
      /\ answer' \in [Conn -> {"none", "200", "413"}]
      /\ runs' \in [Conn -> 0..2]
      /\ \A d \in Conn \ {c} : pcb'[d] = pcb[d] /\ runs'[d] = runs[d]
      /\ pcb'[c] = "none" => runs'[c] = 0
      /\ runs'[c] <= 1
  <2>1. CASE RecvFin(c) \/ Sent(c)
    BY <2>1 DEF RecvFin, Sent, http_close_conn, TypeOK, Budget
  <2>2. CASE Err(c)
    BY <2>2, Sizes DEF Err, Forget, TypeOK
  <2> QED BY <2>1, <2>2
<1>4. TypeOK'
  BY <1>1, <1>2, <1>3, ReleaseStep DEF TypeOK
<1>5. StatesAreOwned'
  <2>1. \A d \in Conn : arg'[d] => pcb'[d] # "none"
    BY <1>1, <1>3, ReleaseStep DEF StatesAreOwned
  <2> QED BY <1>1, <2>1, ReleaseStep DEF StatesAreOwned
<1>6. Budget'
  BY <1>1, <1>3, ReleaseStep DEF Budget
<1> QED BY <1>4, <1>5, <1>6

LEMMA SilentStep ==
    ASSUME ConnInv, NEW c \in Conn, AckedSilently(c) \/ Gone(c)
    PROVE  ConnInv'
<1> USE DEF ConnInv
<1>1. UNCHANGED <<arg, slot, st, rebooting, up>> /\ ~arg[c]
  BY DEF AckedSilently, Gone
<1>2. /\ pcb' \in [Conn -> {"none", "live", "closing"}]
      /\ request' \in [Conn -> Request]
      /\ sending' \in [Conn -> 0..(Header + MaxBody + 1)]
      /\ reply' \in [Conn -> {"none", "inflight", "acked"}]
      /\ answer' \in [Conn -> {"none", "200", "413"}]
      /\ runs' \in [Conn -> 0..2]
      /\ \A d \in Conn \ {c} : pcb'[d] = pcb[d] /\ runs'[d] = runs[d]
      /\ pcb'[c] = "none" => runs'[c] = 0
      /\ runs'[c] <= 1
  <2>1. CASE AckedSilently(c)
    BY <2>1 DEF AckedSilently, TypeOK, Budget
  <2>2. CASE Gone(c)
    BY <2>2, Sizes DEF Gone, Forget, TypeOK
  <2> QED BY <2>1, <2>2
<1>3. TypeOK'
  BY <1>1, <1>2 DEF TypeOK
<1>4. StatesAreOwned'
  BY <1>1, <1>2 DEF StatesAreOwned
<1>5. Budget'
  BY <1>1, <1>2 DEF Budget
<1> QED BY <1>3, <1>4, <1>5

LEMMA DeinitStep ==
    ASSUME ConnInv, http_server_deinit
    PROVE  ConnInv'
<1> USE DEF ConnInv
<1>1. /\ up' = FALSE /\ slot' = [s \in Slot |-> Free]
      /\ arg' = [c \in Conn |-> arg[c] /\ \A s \in Slot : slot[s] # c]
      /\ st' = [c \in Conn |-> IF arg'[c] THEN st[c] ELSE Fresh]
      /\ pcb' = [c \in Conn |-> IF \E s \in Slot : slot[s] = c THEN "closing" ELSE pcb[c]]
      /\ UNCHANGED <<request, sending, reply, answer, runs, rebooting>>
  BY DEF http_server_deinit
<1>2. \A c \in Conn : ~arg'[c]
  BY <1>1, Zenon DEF StatesAreOwned
<1>3. \A c \in Conn : st'[c] = Fresh
  BY <1>1, <1>2, Zenon
<1>4. \A c \in Conn : pcb'[c] \in {"none", "live", "closing"}
                      /\ (pcb'[c] = "none" => pcb[c] = "none")
  BY <1>1 DEF TypeOK
<1>5. TypeOK'
  <2>1. pcb' \in [Conn -> {"none", "live", "closing"}]
    BY <1>1, <1>4
  <2>2. st' \in [Conn -> State]
    BY <1>1, <1>3, Sizes
  <2>3. arg' \in [Conn -> BOOLEAN]
    BY <1>1, Zenon
  <2> QED BY <1>1, <2>1, <2>2, <2>3 DEF TypeOK
<1>6. StatesAreOwned'
  BY <1>1, <1>2, HttpAssumption DEF StatesAreOwned
<1>7. Budget'
  BY <1>1, <1>2, <1>3, <1>4 DEF Budget
<1> QED BY <1>5, <1>6, <1>7

LEMMA NextConnInv == ConnInv /\ [Next]_vars => ConnInv'
<1> SUFFICES ASSUME ConnInv, [Next]_vars PROVE ConnInv'
  OBVIOUS
<1>1. ASSUME NEW c \in Conn, Accept(c) PROVE ConnInv'
  BY <1>1, AcceptStep
<1>2. ASSUME NEW c \in Conn, Recv(c) PROVE ConnInv'
  BY <1>2, RecvStep
<1>3. ASSUME NEW c \in Conn, RecvFin(c) \/ Sent(c) \/ Err(c) PROVE ConnInv'
  BY <1>3, HandBackStep
<1>4. ASSUME NEW c \in Conn, AckedSilently(c) \/ Gone(c) PROVE ConnInv'
  BY <1>4, SilentStep
<1>5. CASE http_server_deinit
  BY <1>5, DeinitStep
<1>6. CASE Restart
  <2>1. Init'
    BY <1>6, Zenon DEF Restart, Init
  <2> QED BY <2>1, InitConnInv, PTL
<1>7. CASE UNCHANGED vars
  BY <1>7 DEF vars, ConnInv, TypeOK, StatesAreOwned, Budget
<1> QED BY <1>1, <1>2, <1>3, <1>4, <1>5, <1>6, <1>7, Zenon DEF Next

LEMMA ConnInvariance == Spec => []ConnInv
  BY InitConnInv, NextConnInv, PTL DEF Spec
------------------------------------------------------------------------------
\* What waits in the buffer is all that has been sent, for as long as the request
\* is not answered, and whatever a handler was given had arrived in whole.
Whole ==
    \A c \in Conn :
        /\ pcb[c] = "none" => sending[c] = 0
        /\ pcb[c] = "live" /\ arg[c] /\ ~st[c].done => st[c].req_len = sending[c]
        /\ runs[c] > 0 /\ st[c].content_length = request[c].body
              => sending[c] >= Header + request[c].body

\* One connection as Whole sees it.
LEMMA WholeElsewhere ==
    ASSUME Whole, NEW d \in Conn, UNCHANGED <<pcb[d], sending[d], arg[d], st[d], runs[d], request[d]>>
    PROVE  /\ pcb'[d] = "none" => sending'[d] = 0
           /\ pcb'[d] = "live" /\ arg'[d] /\ ~st'[d].done => st'[d].req_len = sending'[d]
           /\ runs'[d] > 0 /\ st'[d].content_length = request'[d].body
                 => sending'[d] >= Header + request'[d].body
BY DEF Whole

\* The tokens of a segment join those in the buffer.
LEMMA BufferedTokens ==
    ASSUME TypeOK, Whole, NEW c \in Conn, NEW k \in 1..(Header + MaxBody + 1), Buffered(c, k)
    PROVE  Received(c, k).req_len = sending'[c] /\ sending'[c] \in Nat
<1>1. st[c] \in State /\ sending[c] \in Nat
  BY Sizes DEF TypeOK
<1>2. st[c].req_len = sending[c] /\ sending'[c] = sending[c] + k
  BY <1>1 DEF Buffered, Segment, Whole, TypeOK
<1>3. Received(c, k).req_len = st[c].req_len + k
  BY <1>1 DEF Received, State
<1> QED BY <1>1, <1>2, <1>3, Sizes

LEMMA RecvKeepsWhole ==
    ASSUME ConnInv, Whole, NEW c \in Conn, Recv(c)
    PROVE  Whole'
<1> USE DEF ConnInv
<1>1. PICK k \in 1..(Header + MaxBody + 1) :
         RecvAfterDone(c, k) \/ RecvOverflow(c, k) \/ RecvMore(c, k) \/ RecvDispatch(c, k)
  BY DEF Recv
<1>2. /\ Segment(c, k) /\ UNCHANGED <<arg, request>>
  BY <1>1 DEF RecvAfterDone, RecvOverflow, RecvMore, RecvDispatch, Buffered
<1>3. /\ pcb[c] = "live" /\ arg[c] /\ sending'[c] = sending[c] + k /\ sending[c] \in Nat
      /\ \A d \in Conn \ {c} : sending'[d] = sending[d]
      /\ request[c].body \in Nat
  BY <1>2, Sizes DEF Segment, TypeOK, Request
<1>4. ~st[c].done => runs[c] = 0
  BY <1>3 DEF Budget
<1>5. SUFFICES
         /\ \A d \in Conn \ {c} : pcb'[d] = pcb[d] /\ st'[d] = st[d] /\ runs'[d] = runs[d]
         /\ pcb'[c] # "none"
         /\ pcb'[c] = "live" /\ ~st'[c].done => st'[c].req_len = sending'[c]
         /\ runs'[c] > 0 /\ st'[c].content_length = request[c].body
               => sending'[c] >= Header + request[c].body
  BY <1>2, <1>3, <1>5, WholeElsewhere DEF Whole
<1>6. CASE RecvAfterDone(c, k)
  <2>1. UNCHANGED <<pcb, st, runs>> /\ st[c].done /\ runs[c] \in Nat
    BY <1>6 DEF RecvAfterDone, TypeOK
  <2> QED BY <1>3, <2>1, Sizes DEF Whole
<1>7. CASE RecvOverflow(c, k)
  <2>1. st[c] \in State /\ http_send_response(c, st[c], "413") /\ runs' = runs /\ runs[c] = 0
    BY <1>4, <1>7 DEF RecvOverflow, TypeOK
  <2> QED BY <1>3, <2>1, ResponseStep
<1>8. CASE RecvMore(c, k)
  <2>1. /\ Buffered(c, k) /\ st' = [st EXCEPT ![c] = Received(c, k)]
        /\ UNCHANGED <<pcb, runs>> /\ runs[c] = 0
    BY <1>4, <1>8 DEF RecvMore, Buffered
  <2>2. st'[c] = Received(c, k) /\ \A d \in Conn \ {c} : st'[d] = st[d]
    BY <2>1 DEF TypeOK
  <2> QED BY <1>3, <2>1, <2>2, BufferedTokens
<1>9. CASE RecvDispatch(c, k)
  <2> DEFINE s == Received(c, k)
             tooLarge == s.content_length > FormLimit
             armed == [s EXCEPT !.reset_after_send = request[c].reset /\ ~tooLarge]
             status == IF tooLarge THEN "413" ELSE "200"
  <2>1. /\ Buffered(c, k) /\ Complete(s) /\ http_send_response(c, armed, status)
        /\ runs' = [runs EXCEPT ![c] = IF @ < 2 THEN @ + 1 ELSE @]
    BY <1>9 DEF RecvDispatch
  <2>2. s \in State /\ s.req_len = sending'[c]
    BY <2>1, ReceivedState, BufferedTokens
  <2>3. /\ armed \in State /\ status \in {"200", "413"}
        /\ armed.content_length = s.content_length
    BY <2>2 DEF State
  <2>4. s.content_length = request[c].body => sending'[c] >= Header + request[c].body
    BY <1>3, <2>1, <2>2, Sizes DEF Complete, State
  <2>5. st'[c].content_length = s.content_length
    <3>1. st'[c] \in {[armed EXCEPT !.sent = TRUE, !.done = TRUE], [armed EXCEPT !.sent = FALSE]}
      BY <2>1 DEF http_send_response, TypeOK
    <3> QED BY <2>3, <3>1 DEF State
  <2>6. \A d \in Conn \ {c} : runs'[d] = runs[d]
    BY <2>1 DEF TypeOK
  <2> HIDE DEF s, tooLarge, armed, status
  <2> QED BY <1>3, <2>1, <2>3, <2>4, <2>5, <2>6, ResponseStep
<1> QED BY <1>1, <1>6, <1>7, <1>8, <1>9

\* A connection that comes, goes or only waits for its end.
LEMMA OtherKeepsWhole ==
    ASSUME ConnInv, Whole, NEW c \in Conn,
           \/ Accept(c) \/ RecvFin(c) \/ Sent(c) \/ AckedSilently(c) \/ Err(c) \/ Gone(c)
    PROVE  Whole'
<1> USE DEF ConnInv
<1>1. \A d \in Conn \ {c} :
         UNCHANGED <<pcb[d], sending[d], arg[d], st[d], runs[d], request[d]>>
  BY ReleaseStep DEF Accept, RecvFin, Sent, AckedSilently, Err, Gone, http_close_conn, Forget, TypeOK
<1>2. SUFFICES
         /\ pcb'[c] = "none" => sending'[c] = 0
         /\ pcb'[c] = "live" /\ arg'[c] /\ ~st'[c].done => st'[c].req_len = sending'[c]
         /\ runs'[c] > 0 /\ st'[c].content_length = request'[c].body
               => sending'[c] >= Header + request'[c].body
  BY <1>1, <1>2, WholeElsewhere DEF Whole
<1>3. CASE Accept(c)
  <2>1. pcb'[c] = "live" /\ st'[c] = Fresh /\ sending'[c] = 0 /\ runs'[c] = 0
    BY <1>3 DEF Accept, TypeOK, Whole, Budget, StatesAreOwned
  <2> QED BY <2>1 DEF Fresh
<1>4. CASE RecvFin(c) \/ Sent(c)
  <2>1. pcb'[c] = "closing" /\ st'[c] = Fresh /\ UNCHANGED request
    BY <1>4, ReleaseStep DEF RecvFin, Sent, http_close_conn, TypeOK
  <2>2. request[c].body \in Nat
    BY Sizes DEF TypeOK, Request
  <2> QED BY <2>1, <2>2 DEF Fresh
<1>5. CASE Err(c) \/ Gone(c)
  BY <1>5, ReleaseStep DEF Err, Gone, Forget, TypeOK
<1>6. CASE AckedSilently(c)
  BY <1>6 DEF AckedSilently, Whole
<1> QED BY <1>3, <1>4, <1>5, <1>6

LEMMA NextWhole == ConnInv /\ Whole /\ [Next]_vars => Whole'
<1> SUFFICES ASSUME ConnInv, Whole, [Next]_vars PROVE Whole'
  OBVIOUS
<1>1. ASSUME NEW c \in Conn, Recv(c) PROVE Whole'
  BY <1>1, RecvKeepsWhole
<1>2. ASSUME NEW c \in Conn,
             \/ Accept(c) \/ RecvFin(c) \/ Sent(c) \/ AckedSilently(c) \/ Err(c) \/ Gone(c)
      PROVE  Whole'
  BY <1>2, OtherKeepsWhole
<1>3. CASE http_server_deinit
  <2> SUFFICES ASSUME NEW c \in Conn
               PROVE  /\ pcb'[c] = "none" => sending'[c] = 0
                      /\ st'[c] = Fresh /\ ~arg'[c]
                      /\ request'[c].body # -1
    BY DEF Whole, Fresh
  <2>1. ~arg'[c]
    BY <1>3 DEF http_server_deinit, ConnInv, StatesAreOwned
  <2>3. st'[c] = Fresh
    BY <1>3, <2>1 DEF http_server_deinit
  <2>4. request[c].body # -1
    <3>1. request[c] \in Request
      BY DEF ConnInv, TypeOK
    <3> QED BY <3>1, Sizes DEF Request
  <2>5. pcb'[c] = "none" => pcb[c] = "none"
    BY <1>3 DEF http_server_deinit
  <2>2. UNCHANGED <<request, sending, runs>>
    BY <1>3 DEF http_server_deinit
  <2> QED BY <2>1, <2>2, <2>3, <2>4, <2>5 DEF Whole
<1>4. CASE Restart
  BY <1>4 DEF Restart, Whole
<1>5. CASE UNCHANGED vars
  BY <1>5 DEF vars, Whole
<1> QED BY <1>1, <1>2, <1>3, <1>4, <1>5, Zenon DEF Next

------------------------------------------------------------------------------
\* Types: nothing the peer sends or the memory refuses takes a request past the
\* end of its buffer or a connection out of the states the code tells apart.
THEOREM TypeCorrect == Spec => []TypeOK
<1>1. ConnInv => TypeOK
  BY DEF ConnInv
<1> QED BY <1>1, ConnInvariance, PTL

\* A connection state is in exactly one slot while a callback can reach it, and
\* in none afterwards (http_accept_cb, http_close_conn, http_err_cb).
THEOREM StateOwnership == Spec => []StatesAreOwned
<1>1. ConnInv => StatesAreOwned
  BY DEF ConnInv
<1> QED BY <1>1, ConnInvariance, PTL

\* A connection runs a handler at most once, however its bytes are cut into
\* segments and whatever follows the request (http_recv_cb, http_send_response).
THEOREM OneHandlerRun == Spec => []HandledOnce
<1>1. ConnInv => HandledOnce
  BY DEF ConnInv, Budget, HandledOnce
<1> QED BY <1>1, ConnInvariance, PTL

\* A handler only ever sees a request whose body has arrived in whole, when its
\* length was read in whole: wherever TCP cuts it and whatever size it has
\* (http_recv_cb, http_process_request).
THEOREM WholeRequests == Spec => []DispatchedWhole
<1>1. Init => Whole
  <2> HAVE Init
  <2>1. \A c \in Conn : ~arg[c]
    BY Zenon DEF Init
  <2>2. \A c \in Conn : sending[c] = 0 /\ runs[c] = 0
    BY Zenon DEF Init
  <2>3. ~(0 > 0)
    OBVIOUS
  <2> QED BY <2>1, <2>2, <2>3, Zenon DEF Whole
<1>2. ConnInv /\ Whole /\ [Next]_vars => Whole'
  BY NextWhole
<1>3. Whole => DispatchedWhole
  BY DEF Whole, DispatchedWhole
<1> QED BY <1>1, <1>2, <1>3, ConnInvariance, PTL DEF Spec
==============================================================================
