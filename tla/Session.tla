------------------------------ MODULE Session ------------------------------
(***************************************************************************)
(* The desktop and its engine processes: the request client of the desktop *)
(* (app/electron/engine.ts), the windows and handlers of its main process  *)
(* (app/electron/main.ts), the request loop of each engine (auth/worker.py)*)
(* and the login gate in it (data/auth_session.py).                        *)
(*                                                                         *)
(* The desktop runs one event at a time: an action of the desktop is one   *)
(* event with the continuations it resolves.  An engine serves its requests*)
(* in the order they were written and goes on doing so after the desktop   *)
(* has dropped it, until it has read the end of its input or is killed.    *)
(***************************************************************************)
EXTENDS Naturals, Sequences

CONSTANTS Accounts,     \* accounts of the broker
          NoAccount,
          Hurried,      \* the switch button is pressed while a switch is under way
          MaxEngines,   \* bound: engine processes started
          MaxRequests,  \* bound: requests written
          MaxFaults     \* bound: engines that die or hang in a terminal call

ASSUME SessionAssumption ==
    /\ NoAccount \notin Accounts
    /\ Hurried \in BOOLEAN
    /\ MaxEngines \in Nat /\ MaxRequests \in Nat /\ MaxFaults \in Nat

VARIABLES
    child,       \* EngineClient.child: the engine attached to, 0 for null
    engines,     \* the engine processes
    sequence,    \* EngineClient.sequence
    unsettled,   \* EngineClient.pending: the requests not settled
    session,     \* main.ts session: the account the studio was opened for
    connecting, subscribed, polling,   \* main.ts flags
    login, studio,                     \* the windows that are open
    leaving,     \* engines whose end a reconnect() awaits before login()
    quitting,    \* "no", "stopping" (before-quit awaits stop), "exited"
    terminal,    \* the account the MetaTrader terminal is logged in to
    strayed,     \* history: an engine the desktop has dropped logged in
    raced,       \* history: the login window sent a request while the studio opened
    faults

desktop == <<session, connecting, subscribed, polling, login, studio>>
histories == <<strayed, raced, faults>>
sessionVars == <<child, engines, sequence, unsettled, desktop, leaving, quitting, terminal,
          histories>>

Engine == 1..MaxEngines
Chart == {"subscribe", "poll"}
CallsTerminal == {"connect", "preflight", "subscribe", "poll"}

Phase(e) == engines[e].phase
Alive(e) == Phase(e) \in {"running", "hung"}
OfKind(requests, kinds) == {r \in requests : r.cmd \in kinds}
-----------------------------------------------------------------------------
(* EngineClient *)

Unborn == [phase |-> "unborn", stdin |-> TRUE, inbox |-> <<>>, outbox |-> <<>>,
           account |-> NoAccount, report |-> "none",
           chart |-> NoAccount, director |-> NoAccount]

NextEngine == CHOOSE e \in Engine : Phase(e) = "unborn" /\ \A f \in 1..e-1 : Phase(f) # "unborn"
CanStart == \E e \in Engine : Phase(e) = "unborn"

\* command(): starts an engine when none is attached, registers and writes the request.
Send(cmd, account) ==
    LET request == [id |-> sequence + 1, cmd |-> cmd, account |-> account]
        to == IF child # 0 THEN child ELSE NextEngine
    IN  /\ sequence < MaxRequests
        /\ child # 0 \/ CanStart
        /\ child' = to
        /\ sequence' = sequence + 1
        /\ unsettled' = unsettled \cup {request}
        /\ engines' = [engines EXCEPT ![to].phase = IF @ = "unborn" THEN "running" ELSE @,
                                      ![to].inbox = Append(@, request)]

\* The request timer and stop() forget the other requests without settling them.
FaultRejects(requests) ==
    /\ unsettled' = unsettled
    /\ connecting' = (connecting /\ OfKind(requests, {"connect"}) = {})
    /\ polling' = (polling /\ OfKind(requests, {"poll"}) = {})
SilentRejects(requests) == unsettled' = {} /\ UNCHANGED <<connecting, polling>>

\* rejectPending() with the continuations of what it rejects.
Rejects(requests) ==
    /\ unsettled' = {}
    /\ connecting' = (connecting /\ OfKind(requests, {"connect"}) = {})
    /\ polling' = (polling /\ OfKind(requests, {"poll"}) = {})

Unsubscribes(requests) == OfKind(requests, {"poll"}) # {}

\* stop(): the child is forgotten at once, its input ends, and it may be killed later.
\* What it still writes is ignored.
Dropped == IF child = 0 THEN engines
           ELSE [engines EXCEPT ![child].stdin = FALSE, ![child].outbox = <<>>]
-----------------------------------------------------------------------------
(* Main process: the operator's requests and the timers *)

Open == quitting = "no"

\* LoginGate.tsx sends one of these at a time; connect() answers BUSY while connecting.
Busy == OfKind(unsettled, {"connect", "preflight"}) # {}
Opening == OfKind(unsettled, {"enter"}) # {}

FromLogin(cmd, account) ==
    /\ Open /\ login /\ ~Busy
    /\ Send(cmd, account)
    /\ raced' = (raced \/ Opening)
    /\ UNCHANGED <<session, subscribed, polling, login, studio, leaving, quitting,
                   terminal, strayed, faults>>

Connect(account) == ~connecting /\ FromLogin("connect", account) /\ connecting' = TRUE
Preflight == FromLogin("preflight", NoAccount) /\ UNCHANGED connecting
Enter == ~connecting /\ FromLogin("enter", NoAccount) /\ UNCHANGED connecting

Subscribe ==
    /\ Open /\ studio /\ session # NoAccount
    /\ Send("subscribe", NoAccount)
    /\ subscribed' = FALSE
    /\ UNCHANGED <<session, connecting, polling, login, studio, leaving, quitting,
                   terminal, histories>>

\* The poll interval runs until the process exits.
Poll ==
    /\ quitting # "exited"
    /\ subscribed /\ session # NoAccount /\ ~polling
    /\ Send("poll", NoAccount)
    /\ polling' = TRUE
    /\ UNCHANGED <<session, connecting, subscribed, login, studio, leaving, quitting,
                   terminal, histories>>

\* The switch goes back to the login window without restarting the engine.
FaultReconnect ==
    /\ session' = NoAccount /\ subscribed' = FALSE /\ login' = TRUE
    /\ UNCHANGED <<child, engines, sequence, unsettled, connecting, polling, studio, leaving,
                   quitting, terminal, histories>>

\* reconnect(): the session ends at once, login() follows the end of the engine.
Reconnect ==
    /\ session' = NoAccount /\ subscribed' = FALSE
    /\ child' = 0 /\ engines' = Dropped
    /\ Rejects(unsettled)
    /\ leaving' = IF child = 0 THEN leaving ELSE leaving \cup {child}
    /\ login' = (login \/ child = 0)
    /\ UNCHANGED <<sequence, studio, quitting, terminal, histories>>

\* gate:switch does not ask for a session; the idle lock does.
Switch == Open /\ studio /\ (Hurried \/ session # NoAccount) /\ Reconnect

ShowLogin(e) ==
    /\ quitting # "exited" /\ e \in leaving /\ Phase(e) = "ended"
    /\ leaving' = leaving \ {e}
    /\ login' = TRUE
    /\ UNCHANGED <<child, engines, sequence, unsettled, session, connecting, subscribed,
                   polling, studio, quitting, terminal, histories>>

\* The timer of a request: the request is rejected, the engine dropped; no session ends.
Timeout ==
    /\ quitting # "exited" /\ unsettled # {}
    /\ child' = 0 /\ engines' = Dropped
    /\ Rejects(unsettled)
    /\ subscribed' = (subscribed /\ ~Unsubscribes(unsettled))
    /\ UNCHANGED <<sequence, session, login, studio, leaving, quitting, terminal,
                   histories>>

\* before-quit, also reached by closing the last window: exit waits for stop().
Quit ==
    /\ Open
    /\ quitting' = "stopping"
    /\ child' = 0 /\ engines' = Dropped
    /\ Rejects(unsettled)
    /\ subscribed' = (subscribed /\ ~Unsubscribes(unsettled))
    /\ leaving' = IF child = 0 THEN {} ELSE {child}
    /\ UNCHANGED <<sequence, session, login, studio, terminal, histories>>

\* The process exits and with it the input of every engine ends.
ExitDesktop ==
    /\ quitting = "stopping" /\ \A e \in leaving : Phase(e) = "ended"
    /\ quitting' = "exited"
    /\ engines' = [e \in Engine |-> [engines[e] EXCEPT !.stdin = FALSE]]
    /\ UNCHANGED <<child, sequence, unsettled, desktop, leaving, terminal, histories>>

\* The line handler: a reply of the attached engine settles its request.
Deliver(e) ==
    LET reply == Head(engines[e].outbox)
        cmd == reply.request.cmd
        entered == cmd = "enter" /\ reply.ok
    IN  /\ quitting # "exited" /\ e = child /\ engines[e].outbox # <<>>
        /\ engines' = [engines EXCEPT ![e].outbox = Tail(@)]
        /\ unsettled' = unsettled \ {reply.request}
        /\ session' = IF entered THEN reply.account ELSE session
        /\ studio' = (studio \/ entered)
        /\ login' = (login /\ ~entered)
        /\ connecting' = (connecting /\ cmd # "connect")
        /\ polling' = (polling /\ cmd # "poll")
        /\ subscribed' = CASE cmd = "subscribe" -> reply.ok
                           [] cmd = "poll" -> subscribed /\ reply.ok
                           [] OTHER -> subscribed
        /\ UNCHANGED <<child, sequence, leaving, quitting, terminal, histories>>

\* exit of the attached engine: everything pending is rejected, a session reconnects.
Lost(e) ==
    /\ quitting # "exited" /\ e = child /\ Phase(e) = "ended"
    /\ child' = 0
    /\ Rejects(unsettled)
    /\ session' = IF quitting = "no" THEN NoAccount ELSE session
    /\ login' = (login \/ (quitting = "no" /\ session # NoAccount))
    /\ subscribed' = (subscribed /\ ~Unsubscribes(unsettled)
                      /\ ~(quitting = "no" /\ session # NoAccount))
    /\ UNCHANGED <<engines, sequence, studio, leaving, quitting, terminal, histories>>
-----------------------------------------------------------------------------
(* Engine: the request loop and the login gate *)

\* close() forgets the account only.
FaultClosed(n) == [n EXCEPT !.account = NoAccount]

Closed(n) == [n EXCEPT !.account = NoAccount, !.report = "none"]

Entitled(n) == n.report = "clean"

\* The store file of an account is open in one process at a time.
Locked(e, account) == \E f \in Engine \ {e} : Alive(f) /\ engines[f].account = account

\* connect(): the gate is closed first; a refusal leaves it closed.
Refusal(n) == Closed(n)

Attached(n, account, report) == [n EXCEPT !.account = account, !.report = report]

\* An outcome: the gate, whether the reply is a result, and the terminal's account.
Outcome(gate, ok, account) == [gate |-> gate, ok |-> ok, terminal |-> account]

\* A profile without a saved password is answered before the gate is closed.
ConnectOutcomes(e, n, account) ==
    {Outcome(n, FALSE, terminal)}
    \cup {Outcome(Refusal(n), FALSE, t) : t \in {terminal, account}}
    \cup (IF Locked(e, account) THEN {}
          ELSE {Outcome(Attached(n, account, r), r # "none", account) :
                    r \in {"none", "clean", "halt"}})

\* preflight(): the report is dropped first; an exception closes the gate.
PreflightOutcomes(n) ==
    IF n.account = NoAccount THEN {Outcome(n, FALSE, terminal)}
    ELSE {Outcome(Closed(n), FALSE, terminal)}
         \cup {Outcome([n EXCEPT !.report = r], r # "none", terminal) :
                  r \in {"none", "clean", "halt"}}

EnterOutcomes(n) ==
    {IF Entitled(n) THEN Outcome(n, TRUE, terminal) ELSE Outcome(Closed(n), FALSE, terminal)}

\* The chart and the Director are made once per process, for the account at that time.
Keep(old, account) == IF old = NoAccount THEN account ELSE old
WithChart(n) == [n EXCEPT !.chart = Keep(@, n.account)]
WithDirector(n) == [n EXCEPT !.director = Keep(@, n.account)]

\* Chart and retention requests that raise leave the gate open.
Unharmed(n) == n

ChartOutcomes(cmd, n) ==
    LET m == IF cmd = "subscribe" THEN WithChart(n) ELSE n
    IN  IF ~Entitled(n) THEN {Outcome(Unharmed(n), FALSE, terminal)}
        ELSE {Outcome(Unharmed(m), FALSE, terminal),
              Outcome(IF m.chart # NoAccount THEN WithDirector(m) ELSE m, TRUE, terminal)}

Outcomes(e, request) ==
    LET n == engines[e]
    IN  CASE request.cmd = "connect"   -> ConnectOutcomes(e, n, request.account)
          [] request.cmd = "preflight" -> PreflightOutcomes(n)
          [] request.cmd = "enter"     -> EnterOutcomes(n)
          [] request.cmd \in Chart     -> ChartOutcomes(request.cmd, n)

\* One request of the loop: handled, and its reply written.
Handle(e) ==
    LET request == Head(engines[e].inbox)
        Replied(out) == [request |-> request, ok |-> out.ok, account |-> out.gate.account]
    IN  /\ Phase(e) = "running" /\ engines[e].inbox # <<>>
        /\ \E out \in Outcomes(e, request) :
              /\ engines' = [engines EXCEPT ![e] =
                    [out.gate EXCEPT !.inbox = Tail(@),
                                     !.outbox = IF e = child THEN Append(@, Replied(out))
                                                ELSE @]]
              /\ terminal' = out.terminal
        /\ strayed' = (strayed \/ (e # child /\ request.cmd = "connect"))
        /\ UNCHANGED <<child, sequence, unsettled, desktop, leaving, quitting, raced, faults>>

Ending(e) ==
    [engines EXCEPT ![e] = [Unborn EXCEPT !.phase = "ended", !.stdin = engines[e].stdin,
                                          !.outbox = engines[e].outbox]]

\* End of input: the finally block closes chart, Director, gate and terminal.
EndEngine(e) ==
    /\ Phase(e) = "running" /\ ~engines[e].stdin /\ engines[e].inbox = <<>>
    /\ engines' = Ending(e)
    /\ UNCHANGED <<child, sequence, unsettled, desktop, leaving, quitting, terminal,
                   histories>>

\* The ten seconds of stop() are over while the desktop lives.
Kill(e) ==
    /\ quitting # "exited" /\ Alive(e) /\ e # child /\ ~engines[e].stdin
    /\ engines' = Ending(e)
    /\ UNCHANGED <<child, sequence, unsettled, desktop, leaving, quitting, terminal,
                   histories>>

Die(e) ==
    /\ faults < MaxFaults /\ Alive(e)
    /\ faults' = faults + 1
    /\ engines' = Ending(e)
    /\ UNCHANGED <<child, sequence, unsettled, desktop, leaving, quitting, terminal, strayed,
                   raced>>

Hang(e) ==
    /\ faults < MaxFaults /\ Phase(e) = "running" /\ engines[e].inbox # <<>>
    /\ Head(engines[e].inbox).cmd \in CallsTerminal
    /\ faults' = faults + 1
    /\ engines' = [engines EXCEPT ![e].phase = "hung"]
    /\ UNCHANGED <<child, sequence, unsettled, desktop, leaving, quitting, terminal, strayed,
                   raced>>
-----------------------------------------------------------------------------
SessionInit ==
    /\ child = 0 /\ engines = [e \in Engine |-> Unborn]
    /\ sequence = 0 /\ unsettled = {}
    /\ session = NoAccount
    /\ connecting = FALSE /\ subscribed = FALSE /\ polling = FALSE
    /\ login = TRUE /\ studio = FALSE
    /\ leaving = {} /\ quitting = "no"
    /\ terminal = NoAccount /\ strayed = FALSE /\ raced = FALSE /\ faults = 0

Process(e) == Handle(e) \/ EndEngine(e)

SessionNext ==
    \/ \E account \in Accounts : Connect(account)
    \/ Preflight \/ Enter \/ Subscribe \/ Poll
    \/ Switch \/ Quit \/ ExitDesktop
    \/ Timeout
    \/ \E e \in Engine : \/ ShowLogin(e) \/ Deliver(e) \/ Lost(e)
                         \/ Process(e) \/ Kill(e) \/ Die(e) \/ Hang(e)

SessionSpec == SessionInit /\ [][SessionNext]_sessionVars

\* The timers of the desktop fire, its events are taken, and a running engine goes on.
SessionFairSpec ==
    /\ SessionSpec
    /\ WF_sessionVars(Timeout)
    /\ WF_sessionVars(ExitDesktop)
    /\ \A e \in Engine : /\ WF_sessionVars(Process(e)) /\ WF_sessionVars(Kill(e))
                         /\ WF_sessionVars(Lost(e)) /\ WF_sessionVars(ShowLogin(e))
-----------------------------------------------------------------------------
SessionTypeOK ==
    /\ child \in 0..MaxEngines
    /\ \A e \in Engine : /\ Phase(e) \in {"unborn", "running", "hung", "ended"}
                         /\ engines[e].report \in {"none", "clean", "halt"}
                         /\ {engines[e].account, engines[e].chart, engines[e].director}
                               \subseteq Accounts \cup {NoAccount}
                         /\ engines[e].report # "none" => engines[e].account # NoAccount
    /\ \A r \in unsettled : r.id \in 1..sequence
    /\ session \in Accounts \cup {NoAccount}
    /\ quitting \in {"no", "stopping", "exited"}
    /\ leaving \subseteq Engine

\* A request that is not settled lies with the attached engine: still to be served or
\* with its reply on the way.  A reply can then never settle another engine's request.
PendingIsTheChilds ==
    \A r \in unsettled :
        /\ child # 0
        /\ \/ \E i \in 1..Len(engines[child].inbox) : engines[child].inbox[i] = r
           \/ \E i \in 1..Len(engines[child].outbox) : engines[child].outbox[i].request = r
           \/ ~Alive(child)

\* The chart and the Director of an engine are those of the account it is logged in to:
\* they are never made again, and it is the desktop that starts an engine per account.
ChartIsTheAccounts ==
    \A e \in Engine :
        engines[e].account # NoAccount =>
            {engines[e].chart, engines[e].director} \subseteq {engines[e].account, NoAccount}

\* The account an engine holds authorized is the one the terminal is logged in to, a
\* refused login notwithstanding, unless an engine that was dropped logged in later.
TerminalIsTheAccounts ==
    child # 0 /\ engines[child].account # NoAccount =>
        terminal = engines[child].account \/ strayed

\* A studio keeps the account it was opened for as long as its engine lives: only a login
\* sent while the studio was opening, or an engine replaced after a timeout, is different.
SessionIsAuthorized ==
    session # NoAccount /\ child # 0 /\ Alive(child) =>
        \/ engines[child].account = session /\ Entitled(engines[child])
        \/ raced
        \/ \E e \in 1..child-1 : ~engines[e].stdin

\* Terminal, engine and studio are of one account.
AccountsAgree == ChartIsTheAccounts /\ TerminalIsTheAccounts /\ SessionIsAuthorized

\* No login is under way for ever, however its engine ends.
ConnectEnds == connecting ~> (~connecting \/ quitting = "exited")
-----------------------------------------------------------------------------
(* A statement of the repository that the code does not meet.              *)

\* README: "Account switching restarts the worker": an engine serves one account.
SwitchRestartsWorker ==
    [][\A e \in Engine : engines[e].chart # NoAccount /\ engines'[e].account # NoAccount
                            => engines'[e].account = engines[e].chart]_sessionVars
=============================================================================
