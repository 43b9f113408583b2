----------------------------- MODULE RelayClient -----------------------------
(***************************************************************************)
(* The connection of a page to one inbox (src/src/lib/relay.ts): a socket  *)
(* that is opened again whenever it is lost, the owner's proof on it, and  *)
(* the frames that wait for it.                                            *)
(*                                                                         *)
(* Timers, socket events and the application's calls come in any order.    *)
(* A socket is lost with notice, or without one: then it looks open until  *)
(* a ping has no answer.  Of the relay (worker/relay.ts, RelayRoom) there  *)
(* is what it answers, and whose socket it takes for the owner's.  Received *)
(* ciphertexts and the push subscription are left out.                     *)
(* No name is one of RelayRoom's: proofs about both ends extend both.      *)
(***************************************************************************)
EXTENDS Naturals

CONSTANTS
    MaxSock,    \* bound on sockets that are not yet closed
    MaxMsg,     \* bound on frames to send
    MaxFaults   \* bound on lost sockets, slow answers and returns of the page

ASSUME RelayClientAssumption ==
    MaxSock \in Nat \ {0} /\ {MaxMsg, MaxFaults} \subseteq Nat

Socket == 1..MaxSock
Msg  == 1..MaxMsg

VARIABLES
    owner,       \* opts.auth is there; if not, the client only sends
    ws,          \* the socket whose events count
    closedByUs,
    readyState,  \* of each socket
    link,        \* sockets the relay's end of which is alive
    proven,      \* sockets the relay takes for the owner's
    down,        \* the relay's frames on each
    signing,     \* sockets whose challenge is being signed
    status,      \* of each frame's promise; "plain": it has none
    outbox,      \* frames that wait for a socket
    left,        \* frames that were written to one
    retries,     \* timers that will connect
    beating,     \* the heartbeat's interval
    pong,        \* and its timer
    dropped,     \* the application has closed the client
    scheduled,   \* history: a timer to connect was pending then
    faults

sockets == <<ws, closedByUs, readyState, link, proven, down>>
frames  == <<status, outbox, left>>
timers  == <<retries, beating, pong>>
closed  == <<dropped, scheduled>>
clientVars == <<owner, sockets, signing, frames, timers, closed, faults>>

Live  == {s \in Socket : readyState[s] \in {"connecting", "open"}}
IsUp  == readyState[ws] = "open"
Fault == faults < MaxFaults /\ faults' = faults + 1
\* A signature takes less than the timers that replace a socket (1.5 and 8 s).
Prompt == signing = {}

ClientInit ==
    /\ owner \in BOOLEAN
    /\ ws = 1 /\ closedByUs = FALSE
    /\ readyState = [s \in Socket |-> IF s = 1 THEN "connecting" ELSE "closed"]
    /\ link = Socket /\ proven = {} /\ down = [s \in Socket |-> {}]
    /\ signing = {} /\ outbox = {} /\ left = {}
    /\ status = [m \in Msg |-> "none"]
    /\ retries = 0 /\ beating = FALSE /\ pong = FALSE
    /\ dropped = FALSE /\ scheduled = FALSE /\ faults = 0

-----------------------------------------------------------------------------
(* Connecting.                                                             *)

\* An index stands for a new socket once nothing of the old one is left.
NewSock(c) ==
    LET free == {s \in Socket : c[s] = "closed"} \ signing
    IN  {s \in free : \A t \in free : s <= t}

\* Mutant: it does not look at the socket there is.
ConnectAnyway(c) ==
    /\ closedByUs' = FALSE
    /\ \E s \in NewSock(c) :
          ws' = s /\ readyState' = [c EXCEPT ![s] = "connecting"]

\* connect, with the sockets in the states c: none beside a live one.
ConnectFrom(c) ==
    /\ closedByUs' = FALSE
    /\ IF c[ws] \in {"connecting", "open"}
       THEN readyState' = c /\ ws' = ws
       ELSE \E s \in NewSock(c) :
               ws' = s /\ readyState' = [c EXCEPT ![s] = "connecting"]

\* The page's ws.close(); the event comes later.
Closing ==
    IF ws \in Live THEN [readyState EXCEPT ![ws] = "closing"] ELSE readyState

\* Mutant: the answer stays awaited.
StopInterval == beating' = FALSE /\ UNCHANGED pong

StopHeartbeat == beating' = FALSE /\ pong' = FALSE

\* reconnect: the old socket is detached and closed.
Reconnect ==
    /\ ~closedByUs /\ ConnectFrom(Closing) /\ StopHeartbeat
    /\ UNCHANGED <<owner, link, proven, down, signing, frames, retries,
                   closed>>

\* The relay answers what is written to s, if it is there to answer.
Answered(s, answers) ==
    down' = [down EXCEPT ![s] = IF s \in link THEN @ \cup answers ELSE @]

\* A mailbox takes a frame or refuses it.
Answers(ms) == {{<<IF m \in full THEN "nack" ELSE "sent", m>> : m \in ms} :
                full \in SUBSET ms}

\* onopen: hello, everything that waited, and the heartbeat.
Opens ==
    /\ readyState[ws] = "connecting"
    /\ readyState' = [readyState EXCEPT ![ws] = "open"]
    /\ \E answers \in Answers(outbox) :
          Answered(ws, answers \cup IF owner THEN {<<"challenge", ws>>} ELSE {})
    /\ left' = left \cup outbox /\ outbox' = {}
    /\ beating' = TRUE /\ pong' = FALSE
    /\ UNCHANGED <<owner, ws, closedByUs, link, proven, signing, status,
                   retries, closed, faults>>

\* onclose, which means nothing if another socket has taken its place.
OnClose(s) ==
    /\ readyState[s] = "closing"
    /\ readyState' = [readyState EXCEPT ![s] = "closed"]
    /\ link' = link \cup {s} /\ proven' = proven \ {s}
    /\ down' = [down EXCEPT ![s] = {}]
    /\ IF s = ws
       THEN /\ StopHeartbeat
            /\ retries' = IF closedByUs THEN retries ELSE retries + 1
       ELSE UNCHANGED timers
    /\ UNCHANGED <<owner, ws, closedByUs, signing, frames, closed, faults>>

Retry ==
    /\ retries > 0 /\ retries' = retries - 1 /\ Prompt
    /\ ConnectFrom(readyState)
    /\ UNCHANGED <<owner, link, proven, down, signing, frames, beating, pong,
                   closed, faults>>

\* A return to the foreground reconnects at once, and finds a signature undone.
Foreground == ~dropped /\ Fault /\ Reconnect

\* A socket does not come up, or is lost with notice;
Fails ==
    /\ Fault /\ ws \in Live /\ readyState' = Closing
    /\ UNCHANGED <<owner, ws, closedByUs, link, proven, down, signing, frames,
                   timers, closed>>

\* or without, and with it what was on its way.
Dies ==
    /\ Fault /\ IsUp
    /\ link' = link \ {ws} /\ down' = [down EXCEPT ![ws] = {}]
    /\ UNCHANGED <<owner, ws, closedByUs, readyState, proven, signing, frames,
                   timers, closed>>

-----------------------------------------------------------------------------
(* The heartbeat.                                                          *)

Beat ==
    /\ beating /\ IsUp
    /\ Answered(ws, {<<"pong", ws>>}) /\ pong' = TRUE
    /\ UNCHANGED <<owner, ws, closedByUs, readyState, link, proven, signing,
                   frames, retries, beating, closed, faults>>

\* Mutant: an overdue answer stops the heartbeat and no more.
PongTimeoutStops ==
    /\ pong /\ pong' = FALSE /\ beating' = FALSE
    /\ UNCHANGED <<owner, sockets, signing, frames, retries, closed>>

PongTimeout == pong /\ Prompt /\ Reconnect

Lost     == IsUp => ws \notin link
NoPong   == Lost /\ PongTimeout /\ UNCHANGED faults
SlowPong == ~Lost /\ Fault /\ PongTimeout

-----------------------------------------------------------------------------
(* Frames of the relay.                                                    *)

\* A waiter is settled by the first answer, and by its timer before that.
Settle(m, as) ==
    status' = [status EXCEPT ![m] = IF @ = "waiting" THEN as ELSE @]

Receive(f) ==
    /\ IsUp /\ f \in down[ws] /\ down' = [down EXCEPT ![ws] = @ \ {f}]
    /\ \/ f[1] = "pong" /\ pong' = FALSE /\ UNCHANGED <<status, signing>>
       \/ f[1] = "sent" /\ Settle(f[2], "sent") /\ UNCHANGED <<pong, signing>>
       \/ f[1] = "nack" /\ Settle(f[2], "failed") /\ UNCHANGED <<pong, signing>>
       \/ f[1] = "challenge" /\ signing' = signing \cup {ws}
          /\ UNCHANGED <<pong, status>>
    /\ UNCHANGED <<owner, ws, closedByUs, readyState, link, proven, outbox,
                   left, retries, beating, closed, faults>>

\* The signature goes to the socket there is by then; one that is not for its
\* challenge makes the relay close it.  A socket that is not open takes nothing.
Signed(n) ==
    /\ n \in signing /\ signing' = signing \ {n}
    /\ IF IsUp /\ ws \in link
       THEN IF n = ws THEN proven' = proven \cup {ws} /\ UNCHANGED readyState
                      ELSE readyState' = Closing /\ UNCHANGED proven
       ELSE UNCHANGED <<readyState, proven>>
    /\ UNCHANGED <<owner, ws, closedByUs, link, down, frames, timers, closed,
                   faults>>

\* The catch closes with a code that a page may not use, which throws.
SignFails(n) ==
    /\ Fault /\ n \in signing /\ signing' = signing \ {n}
    /\ UNCHANGED <<owner, sockets, frames, timers, closed>>

-----------------------------------------------------------------------------
(* The application.                                                        *)

\* sendConfirmed, or send
SendFrame(m, promised) ==
    /\ ~owner /\ ~dropped /\ status[m] = "none"
    /\ \A k \in Msg : k < m => status[k] # "none"
    /\ status' = [status EXCEPT ![m] = IF promised THEN "waiting" ELSE "plain"]
    /\ IF IsUp
       THEN /\ left' = left \cup {m} /\ UNCHANGED outbox
            /\ \E answers \in Answers({m}) : Answered(ws, answers)
       ELSE outbox' = outbox \cup {m} /\ UNCHANGED <<left, down>>
    /\ UNCHANGED <<owner, ws, closedByUs, readyState, link, proven, signing,
                   timers, closed, faults>>

\* The waiter's timer: what has not left does not leave any more.
Timeout(m) ==
    /\ status[m] = "waiting" /\ Settle(m, "failed")
    /\ outbox' = outbox \ {m}
    /\ UNCHANGED <<owner, sockets, signing, left, timers, closed, faults>>

\* close, by a messenger that is locked, suspended or has deleted the contact.
Close ==
    /\ ~dropped /\ dropped' = TRUE /\ closedByUs' = TRUE
    /\ scheduled' = (retries > 0)
    /\ status' = [m \in Msg |-> IF status[m] = "waiting" THEN "failed" ELSE status[m]]
    /\ StopHeartbeat /\ readyState' = Closing
    /\ UNCHANGED <<owner, ws, link, proven, down, signing, outbox, left,
                   retries, faults>>

-----------------------------------------------------------------------------
ClientNext ==
    \/ Opens \/ Retry \/ Beat \/ NoPong \/ SlowPong \/ Foreground \/ Fails \/ Dies
    \/ Close
    \/ \E s \in Socket : OnClose(s) \/ Signed(s)
    \/ \E f \in down[ws] : Receive(f)
    \/ \E m \in Msg : Timeout(m) \/ \E promised \in BOOLEAN : SendFrame(m, promised)

ClientSpec == ClientInit /\ [][ClientNext]_clientVars

\* Timers run out, the browser reports what becomes of a socket and signs, and
\* the relay's challenge arrives.
ClientFairness ==
    /\ WF_clientVars(Opens) /\ WF_clientVars(Retry)
    /\ WF_clientVars(Beat) /\ WF_clientVars(NoPong)
    /\ WF_clientVars(\E s \in Socket : OnClose(s))
    /\ WF_clientVars(\E s \in Socket : Signed(s))
    /\ WF_clientVars(\E s \in Socket : Receive(<<"challenge", s>>))

ClientFairSpec == ClientSpec /\ ClientFairness
SignSpec == /\ ClientInit
            /\ [][ClientNext \/ \E s \in Socket : SignFails(s)]_clientVars
            /\ ClientFairness

-----------------------------------------------------------------------------
\* Types, and where the timers belong.
ClientTypeOK ==
    /\ owner \in BOOLEAN /\ closedByUs \in BOOLEAN
    /\ dropped \in BOOLEAN /\ scheduled \in BOOLEAN
    /\ ws \in Socket
    /\ readyState \in [Socket -> {"connecting", "open", "closing", "closed"}]
    /\ link \subseteq Socket /\ proven \subseteq Socket /\ signing \subseteq Socket
    /\ \A s \in Socket :
          down[s] \subseteq
              ({"pong", "challenge"} \X Socket) \cup ({"sent", "nack"} \X Msg)
    /\ status \in [Msg -> {"none", "plain", "waiting", "sent", "failed"}]
    /\ outbox \cap left = {}
    /\ \A m \in Msg : status[m] \in {"plain", "waiting", "sent"} => m \in outbox \cup left
    /\ retries \in Nat /\ faults \in 0..MaxFaults
    /\ pong => beating
    /\ beating => readyState[ws] # "closed"

Online == IsUp /\ ws \in link /\ (owner => ws \in proven)

\* There is one connection, and none once the application has closed the client,
\* unless a timer to connect was pending then (close cancels none); what a caller
\* was told has failed does not leave later (relay.ts, sendConfirmed).
Disciplined ==
    /\ Live \subseteq IF dropped /\ ~scheduled THEN {} ELSE {ws}
    /\ dropped \/ \A m \in outbox : status[m] # "failed"

\* The code does not keep this one: closing the client ends its connection.
ClosedForGood == dropped => Live = {}

\* A client that is not closed is connected, and its owner known, again and
\* again: also after a socket that was lost without notice, and whatever of the
\* old socket's timers and signatures comes later.
ComesBack == []<>(dropped \/ Online)
=============================================================================
