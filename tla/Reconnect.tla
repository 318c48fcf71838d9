------------------------------ MODULE Reconnect ------------------------------
(***************************************************************************)
(* Keeping the feed connected: the reconnect loop of main                  *)
(* (cmd/bot/main.go) around StartSocket (internal/tracker/websocket.go).   *)
(*                                                                         *)
(* Time passes in units (of 5 s).  The server may be down, accept          *)
(* connections and send nothing, or be up, which means that it accepts     *)
(* connections and sends trades more often than the watchdog expires.  Any *)
(* change of the server, or of the path to it, may leave a connection or   *)
(* a dial half open: neither side hears of it, and only a timeout ends it. *)
(***************************************************************************)
EXTENDS Naturals

CONSTANTS
    Base,           \* the first backoff (5 s)
    MaxBackoff,     \* maxBackoff (5 min)
    Healthy,        \* sessions longer than this were healthy (1 min)
    Handshake,      \* HandshakeTimeout (10 s)
    Watchdog,       \* watchDog (30 s)
    MaxShorts       \* bound: short sessions in a row that are told apart

\* The longest the feed can be away after the last disturbance.
Worst == Handshake + Watchdog + MaxBackoff + Handshake

\* The first backoff after it was doubled n times.
Doubled[n \in Nat] == IF n = 0 THEN Base ELSE 2 * Doubled[n - 1]

ASSUME ReconnectAssumption ==
    /\ {Base, MaxBackoff, Healthy, Handshake, Watchdog, MaxShorts} \subseteq Nat \ {0}
    /\ Base <= MaxBackoff /\ MaxBackoff <= Doubled[MaxShorts]
    /\ Handshake <= Watchdog /\ Handshake <= Healthy

VARIABLES
    server,     \* "down", "silent" or "up"
    pc,         \* "dial", "session" or "sleep"
    elapsed,    \* units since start, counted up to Healthy + 1
    silent,     \* units since the read deadline was set
    armed,      \* a read deadline is set
    backoff,    \* the pause after the last session
    wait,       \* what is left of it
    current,    \* history: nothing has happened since the dial began
    calm,       \* history: units since the last disturbance, up to Worst + 1
    shorts      \* history: short sessions since the last healthy one

vars == <<server, pc, elapsed, silent, armed, backoff, wait, current, calm, shorts>>

Servers == {"down", "silent", "up"}

TypeOK ==
    /\ server \in Servers
    /\ pc \in {"dial", "session", "sleep"}
    /\ elapsed \in 0..Healthy + 1
    /\ silent \in 0..Watchdog
    /\ armed \in BOOLEAN
    /\ backoff \in Base..MaxBackoff
    /\ wait \in 0..MaxBackoff
    /\ current \in BOOLEAN
    /\ calm \in 0..Worst + 1
    /\ shorts \in 0..MaxShorts
    /\ pc = "dial" => elapsed <= Handshake
    /\ pc = "session" => armed

Init ==
    /\ server \in Servers
    /\ pc = "dial"
    /\ elapsed = 0
    /\ silent = 0
    /\ armed = FALSE
    /\ backoff = Base
    /\ wait = 0
    /\ current = TRUE
    /\ calm = 0
    /\ shorts = 0

AtMost(n, max) == IF n < max THEN n ELSE max

\* Trades arrive.
Delivering == pc = "session" /\ current /\ server = "up"

-----------------------------------------------------------------------------
(* The end of StartSocket, for whatever reason: it always returns an error. *)

\* The pause is doubled without a limit.
EndUncapped ==
    /\ pc' = "sleep"
    /\ IF elapsed > Healthy
         THEN backoff' = Base /\ shorts' = 0
         ELSE backoff' = backoff * 2 /\ shorts' = AtMost(shorts + 1, MaxShorts)
    /\ wait' = backoff'
    /\ UNCHANGED <<server, elapsed, silent, armed, current, calm>>

\* A healthy session leaves the backoff as it is.
EndWithoutReset ==
    /\ pc' = "sleep"
    /\ IF elapsed > Healthy
         THEN backoff' = backoff /\ shorts' = 0
         ELSE backoff' = AtMost(backoff * 2, MaxBackoff)
              /\ shorts' = AtMost(shorts + 1, MaxShorts)
    /\ wait' = backoff'
    /\ UNCHANGED <<server, elapsed, silent, armed, current, calm>>

\* A healthy session resets the backoff, a short one doubles it; the loop
\* sleeps after either.
End ==
    /\ pc' = "sleep"
    /\ IF elapsed > Healthy
         THEN backoff' = Base /\ shorts' = 0
         ELSE backoff' = AtMost(backoff * 2, MaxBackoff)
              /\ shorts' = AtMost(shorts + 1, MaxShorts)
    /\ wait' = backoff'
    /\ UNCHANGED <<server, elapsed, silent, armed, current, calm>>

Wake ==
    /\ pc = "sleep" /\ wait = 0
    /\ pc' = "dial"
    /\ elapsed' = 0
    /\ current' = TRUE
    /\ UNCHANGED <<server, silent, armed, backoff, wait, calm, shorts>>

-----------------------------------------------------------------------------
(* StartSocket.                                                            *)

\* Dial fails, by the HandshakeTimeout at the latest.
DialFails ==
    /\ pc = "dial"
    /\ server # "up" \/ ~current
    /\ End

\* The first deadline is set when the first message has come.
ConnectUnarmed ==
    /\ pc = "dial"
    /\ server # "down"
    /\ pc' = "session"
    /\ silent' = 0
    /\ armed' = FALSE
    /\ UNCHANGED <<server, elapsed, backoff, wait, current, calm, shorts>>

\* Dial succeeds and the read deadline is set before the subscription is sent.
Connect ==
    /\ pc = "dial"
    /\ server # "down"
    /\ pc' = "session"
    /\ silent' = 0
    /\ armed' = TRUE
    /\ UNCHANGED <<server, elapsed, backoff, wait, current, calm, shorts>>

\* The subscription cannot be written, or ReadMessage returns an error.
ReadFails ==
    /\ pc = "session" /\ ~Delivering
    /\ End

\* A message moves the deadline; what becomes of it is in AlertPipeline.
Message ==
    /\ Delivering
    /\ silent' = 0
    /\ armed' = TRUE
    /\ UNCHANGED <<server, pc, elapsed, backoff, wait, current, calm, shorts>>

WatchdogExpires ==
    /\ pc = "session" /\ armed /\ silent = Watchdog
    /\ End

-----------------------------------------------------------------------------
(* The rest of the world.                                                  *)

\* The server or the path to it changes; what was under way may hang.
Disturb ==
    /\ server' \in Servers
    /\ current' = FALSE
    /\ calm' = 0
    /\ UNCHANGED <<pc, elapsed, silent, armed, backoff, wait, shorts>>

\* A unit of time passes.  Timeouts do not wait for it, and a server that is up
\* sends its next trade before the watchdog would expire.
Tick ==
    /\ pc = "dial" => elapsed < Handshake
    /\ pc = "session" /\ armed => silent < Watchdog
    /\ Delivering /\ armed => silent < Watchdog - 1
    /\ pc = "sleep" => wait > 0
    /\ elapsed' = AtMost(elapsed + 1, Healthy + 1)
    /\ silent' = IF pc = "session" THEN AtMost(silent + 1, Watchdog) ELSE silent
    /\ wait' = IF pc = "sleep" THEN wait - 1 ELSE wait
    /\ calm' = AtMost(calm + 1, Worst + 1)
    /\ UNCHANGED <<server, pc, armed, backoff, current, shorts>>

StartSocket ==
    DialFails \/ Connect \/ ReadFails \/ Message \/ WatchdogExpires

Next == StartSocket \/ Wake \/ Disturb \/ Tick

Spec == Init /\ [][Next]_vars

-----------------------------------------------------------------------------
(* Properties.                                                             *)

\* "If the connection was healthy (lasted >1 min), backoff resets to 5s. On
\* rapid failures, backoff doubles up to 5 minutes" (main.go:106-107): the
\* pause is decided by the short sessions since the last healthy one and by
\* nothing else, however the sessions ended.
BackoffFollowsHistory ==
    backoff = AtMost(Doubled[shorts], MaxBackoff)

\* A feed that is up again is connected in time: at worst a dial that was under
\* way has to end in a half open session, the session to hit the watchdog, the
\* longest pause to pass and the next dial to succeed (350 s with the times of
\* the code).  No order of failures leaves the program waiting for a dead connection.
FeedIsBackInTime == server = "up" /\ calm > Worst => Delivering
=============================================================================
