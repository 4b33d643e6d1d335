----------------------------- MODULE ClientLink -----------------------------
(***************************************************************************)
(* The desktop client's connection: the task of chatty-gui/src/network     *)
(* (run: dialling, certificate trust, saved session, request routing) and  *)
(* the part of the application that drives it (app/update.rs: TryConnect,  *)
(* SubmitLogin, SignOut, ...; app/events.rs: what each Event does).  The   *)
(* two talk through an unbounded command channel and an unbounded event    *)
(* channel, and both run at their own pace.                                *)
(*                                                                         *)
(* Abstractions.  A token is the broker that issued it and a number.  The  *)
(* broker is external: it may answer the requests of a connection in any   *)
(* order, and a link that breaks may leave requests handled but            *)
(* unanswered.  A request other than those below is a "get".  User actions *)
(* and faults are bounded by MaxActs and MaxFaults.                        *)
(***************************************************************************)
EXTENDS Naturals, Sequences

CONSTANTS Target, None, Msg, MaxActs, MaxFaults, MaxLogins

VARIABLES
  connected, connecting, restoring, cert, token,   \* ChattyApp
  commands, events,                                \* the channels
  phase, target, established, pending,             \* run: where it is
  remembered, file,                                \* the session, and on disk
  next_id, signed_out, generations, wire,          \* one connection
  trusted, sessions, logins,                       \* certificates; the broker
  typed,                                           \* messages the user sent off
  told, generated,                                 \* how often the broker got each
  acts, faults

app == <<connected, connecting, restoring, cert, token>>
session == <<remembered, file>>
link == <<next_id, signed_out, generations, wire>>
broker == <<sessions, logins, told, generated>>
bounds == <<acts, faults>>
clientVars == <<app, commands, events, phase, target, established, pending,
                session, link, trusted, typed, broker, bounds>>

Command(op, arg) == [op |-> op, arg |-> arg]
Event(kind, arg) == [kind |-> kind, arg |-> arg]
Request(op, tok, msg) == [op |-> op, tok |-> tok, msg |-> msg]
NoGenerations == [i \in {} |-> None]

\* save_session, and the removal of its file: the memory and the file agree.
Remember(tok) == remembered' = tok /\ file' = tok

\* load_session: a session of an earlier run of the client, or none.
LoadSession ==
  \E s \in {None} \cup [broker : Target, n : {1}] :
    /\ remembered = s /\ file = s
    /\ sessions = {s} \ {None} /\ logins = IF s = None THEN 0 ELSE 1

\* connect finds a certificate the user trusted for the server.
Known(t) == t \in trusted
SaveCertificate(t) == trusted' = trusted \cup {t}

LinkInit ==
  /\ connected = FALSE /\ connecting = FALSE /\ restoring = FALSE
  /\ cert = None /\ token = None
  /\ commands = <<>> /\ events = <<>>
  /\ phase = "idle" /\ target = None /\ established = FALSE /\ pending = <<>>
  /\ LoadSession
  /\ next_id = 1 /\ signed_out = 0 /\ generations = NoGenerations /\ wire = {}
  /\ trusted = {} /\ typed = {}
  /\ told = [m \in Msg |-> 0] /\ generated = [m \in Msg |-> 0]
  /\ acts = 0 /\ faults = 0

-----------------------------------------------------------------------------
(* The application: what the user may press, by the view that is shown.    *)

Send(seq) == commands' = commands \o seq

Act == acts < MaxActs /\ acts' = acts + 1

\* TryConnect, on the connection form.
TryConnect(t) ==
  /\ Act /\ ~connected /\ ~connecting /\ cert = None
  /\ connecting' = TRUE /\ Send(<<Command("connect", t)>>)
  /\ UNCHANGED <<connected, restoring, cert, token, events, phase, target, established,
                 pending, session, link, trusted, typed, broker, faults>>

\* TrustCertificate(true) and TrustCertificate(false).
AnswerCertificate(trust) ==
  /\ Act /\ cert # None
  /\ IF trust THEN /\ Send(<<Command("trust", cert)>>)
                   /\ connecting' = TRUE /\ UNCHANGED connected
              ELSE /\ Send(<<Command("reject", None)>>)
                   /\ connected' = FALSE /\ UNCHANGED connecting
  /\ cert' = None
  /\ UNCHANGED <<restoring, token, events, phase, target, established, pending,
                 session, link, trusted, typed, broker, faults>>

\* A certificate question covers the other views.
LoginForm == connected /\ ~restoring /\ token = None /\ cert = None
SignedIn == connected /\ ~restoring /\ token # None /\ cert = None

\* SubmitLogin, SubmitRegister.
SubmitLogin ==
  /\ Act /\ LoginForm
  /\ Send(<<Command("request", Request("login", None, None))>>)
  /\ UNCHANGED <<app, events, phase, target, established, pending, session, link,
                 trusted, typed, broker, faults>>

ChangeServer ==
  /\ Act /\ LoginForm
  /\ connected' = FALSE /\ Send(<<Command("disconnect", None)>>)
  /\ UNCHANGED <<connecting, restoring, cert, token, events, phase, target, established,
                 pending, session, link, trusted, typed, broker, faults>>

\* SignOut: the broker is told, the saved session is cleared, the account's
\* values are dropped (clear_account).
SignOut ==
  /\ Act /\ SignedIn
  /\ Send(<<Command("request", Request("logout", token, None)), Command("clear", None)>>)
  /\ token' = None
  /\ UNCHANGED <<connected, connecting, restoring, cert, events, phase, target,
                 established, pending, session, link, trusted, typed, broker, faults>>

\* submit_message with text: the reply is asked for once the message is in.
SubmitMessage(m) ==
  /\ Act /\ SignedIn /\ m \notin typed
  /\ Send(<<Command("message", Request("send", token, m))>>)
  /\ typed' = typed \cup {m}
  /\ UNCHANGED <<app, events, phase, target, established, pending, session, link,
                 trusted, broker, faults>>

\* handle_event, for the event at the head of the channel.
HandleEvent ==
  LET e == Head(events)
  IN /\ events # <<>> /\ events' = Tail(events)
     /\ connected' = CASE e.kind \in {"connected", "authenticated"} -> TRUE
                       [] e.kind \in {"failed", "disconnected"} -> FALSE
                       [] OTHER -> connected
     /\ connecting' = IF e.kind \in {"expired", "accepted", "offline"}
                        THEN connecting ELSE FALSE
     /\ restoring' = CASE e.kind = "connected" -> e.arg
                       [] e.kind \in {"accepted", "offline", "certificate"} -> restoring
                       [] OTHER -> FALSE
     /\ cert' = CASE e.kind = "certificate" -> e.arg
                  [] e.kind \in {"failed", "disconnected"} -> None
                  [] OTHER -> cert
     /\ token' = CASE e.kind = "authenticated" -> e.arg
                   [] e.kind \in {"disconnected", "expired"} -> None
                   [] OTHER -> token
     /\ commands' =
          IF e.kind = "authenticated" \/ (e.kind = "accepted" /\ token # None)
            THEN Append(commands, Command("request", Request("get", token', None)))
            ELSE commands
     /\ UNCHANGED <<phase, target, established, pending, session, link, trusted,
                    typed, broker, bounds>>

-----------------------------------------------------------------------------
(* The network task.                                                       *)

Tell(seq) == events' = events \o seq

\* No target: only a connect or the end of the session is heard.
Idle ==
  LET c == Head(commands)
  IN /\ phase = "idle" /\ commands # <<>> /\ commands' = Tail(commands)
     /\ IF c.op = "connect"
          THEN target' = c.arg /\ established' = FALSE /\ phase' = "dial"
          ELSE UNCHANGED <<target, established, phase>>
     /\ IF c.op = "clear" THEN Remember(None)
        ELSE UNCHANGED session
     /\ UNCHANGED <<app, events, pending, link, trusted, typed, broker, bounds>>

\* A new connection: its codec, the capabilities request (whose answer no
\* property here depends on) and, with a session of this broker, its resumption.
Connected ==
  LET resume == remembered # None /\ remembered.broker = target
      again == [id |-> next_id + 2, req |-> Request("resume", remembered, None)]
  IN /\ phase = "dial"
     /\ phase' = "online" /\ established' = TRUE
     /\ Tell(<<Event("connected", resume)>>)
     /\ wire' = IF resume THEN {again} ELSE {}
     /\ next_id' = next_id + IF resume THEN 2 ELSE 1
     /\ generations' = NoGenerations
     /\ UNCHANGED <<app, commands, target, pending, session, signed_out, trusted,
                    typed, broker, bounds>>

\* The certificate is not publicly valid and no trusted one is on disk.
TrustRequired ==
  /\ phase = "dial" /\ ~Known(target)
  /\ phase' = "trust" /\ Tell(<<Event("certificate", target)>>)
  /\ UNCHANGED <<app, commands, target, established, pending, session, link,
                 trusted, typed, broker, bounds>>

\* The dial fails or takes eight seconds.
DialFails ==
  /\ phase = "dial" /\ faults < MaxFaults /\ faults' = faults + 1
  /\ IF established
       THEN phase' = "park" /\ Tell(<<Event("offline", None)>>) /\ UNCHANGED target
       ELSE phase' = "idle" /\ Tell(<<Event("failed", None)>>) /\ target' = None
  /\ UNCHANGED <<app, commands, established, pending, session, link, trusted,
                 typed, broker, acts>>

\* One command answers the question; saving the certificate may fail.
Trust ==
  LET c == Head(commands)
      close(kind) == target' = None /\ phase' = "idle" /\ Tell(<<Event(kind, None)>>)
  IN /\ phase = "trust" /\ commands # <<>> /\ commands' = Tail(commands)
     /\ \/ /\ c.op = "trust" /\ c.arg = target
           /\ SaveCertificate(target) /\ phase' = "dial"
           /\ UNCHANGED <<target, events, faults>>
        \/ /\ c.op = "trust" /\ c.arg = target
           /\ faults < MaxFaults /\ faults' = faults + 1
           /\ close("failed") /\ UNCHANGED trusted
        \/ /\ c.op = "connect" /\ target' = c.arg /\ phase' = "dial"
           /\ UNCHANGED <<events, trusted, faults>>
        \/ /\ c.op \in {"reject", "disconnect"}
           /\ close("disconnected") /\ UNCHANGED <<trusted, faults>>
        \/ /\ c.op \notin {"connect", "reject", "disconnect"}
           /\ c.op = "trust" => c.arg # target
           /\ close("failed") /\ UNCHANGED <<trusted, faults>>
     /\ UNCHANGED <<app, established, pending, session, link, typed, broker, acts>>

\* park_for_command: the next command waits for the link it calls for.
Park ==
  /\ phase = "park" /\ commands # <<>>
  /\ pending' = Append(pending, Head(commands)) /\ commands' = Tail(commands)
  /\ phase' = "dial"
  /\ UNCHANGED <<app, events, target, established, session, link, trusted,
                 typed, broker, bounds>>

\* next_command takes what was parked before the channel.
TakeCommand ==
  IF pending # <<>> THEN pending' = Tail(pending) /\ UNCHANGED commands
  ELSE commands' = Tail(commands) /\ UNCHANGED pending

NextCommand == Head(pending \o commands)

Online == phase = "online" /\ pending \o commands # <<>> /\ TakeCommand

Write(req) ==
  /\ next_id' = next_id + 1
  /\ wire' = wire \cup {[id |-> next_id', req |-> req]}

\* Every command but those that write a request.
OnlineControl ==
  LET c == NextCommand
  IN /\ Online /\ c.op \notin {"request", "message"}
     /\ IF c.op = "disconnect"
          THEN /\ target' = None /\ established' = FALSE /\ phase' = "idle"
               /\ Tell(<<Event("disconnected", None)>>)
          ELSE UNCHANGED <<target, established, phase, events>>
     /\ IF c.op = "clear"
          THEN Remember(None) /\ signed_out' = next_id
          ELSE UNCHANGED <<session, signed_out>>
     /\ UNCHANGED <<app, next_id, generations, wire, trusted, typed, broker, bounds>>

\* A request, or a message whose reply is to be asked for; a failed write
\* loses the command and the link.
OnlineRequest(ok) ==
  LET c == NextCommand
      logout == c.op = "request" /\ c.arg.op = "logout"
  IN /\ Online /\ c.op \in {"request", "message"}
     /\ IF logout THEN Remember(None) ELSE UNCHANGED session
     /\ signed_out' = IF logout THEN next_id + 1 ELSE signed_out
     /\ IF ok THEN /\ Write(c.arg)
                   /\ generations' = IF c.op = "message"
                        THEN [i \in DOMAIN generations \cup {next_id + 1} |->
                                IF i = next_id + 1 THEN c.arg ELSE generations[i]]
                        ELSE generations
                   /\ UNCHANGED <<phase, faults>>
              ELSE /\ faults < MaxFaults /\ faults' = faults + 1
                   /\ next_id' = next_id + 1 /\ phase' = "park"
                   /\ wire' = {} /\ generations' = NoGenerations
     /\ UNCHANGED <<app, events, target, established, trusted, typed, broker, acts>>

-----------------------------------------------------------------------------
(* The broker, as this client meets it.                                    *)

Kind == {"response", "accepted", "authenticated", "unauthorized", "refused"}

\* What the broker does with a request and the kind of its answer.
Handle(req, kind) ==
  LET known == req.tok = None \/ req.tok \in sessions
      count(f) == [f EXCEPT ![req.msg] = @ + 1]
  IN /\ kind \in CASE ~known -> {"unauthorized"}
                   [] req.op \in {"login", "resume"} -> {"authenticated"}
                   [] req.op = "logout" -> {"accepted"}
                   [] req.op = "send" -> {"accepted", "refused"}
                   [] OTHER -> {"response"}
     /\ IF req.op = "login"
          THEN /\ logins < MaxLogins /\ logins' = logins + 1
               /\ sessions' = sessions \cup {[broker |-> target, n |-> logins']}
          ELSE /\ sessions' = IF req.op = "logout" THEN sessions \ {req.tok} ELSE sessions
               /\ UNCHANGED logins
     /\ told' = IF req.op = "send" /\ kind = "accepted" THEN count(told) ELSE told
     /\ generated' = IF known /\ req.op = "generate" THEN count(generated) ELSE generated

\* take_accepted_generation.
GenerateNow(q, kind) == kind = "accepted" /\ q.id \in DOMAIN generations

Answered(q, kind) ==
  [i \in DOMAIN generations \ (IF kind = "response" THEN {} ELSE {q.id}) |-> generations[i]]

\* read_frame: one answer, and the request it releases.
ReadFrame(q, kind) ==
  LET new == IF q.req.op = "login" THEN [broker |-> target, n |-> logins + 1] ELSE q.req.tok
      mine == remembered # None /\ remembered.broker = target
      expired == kind = "unauthorized" /\ mine
      expected == kind = "unauthorized" /\ signed_out # 0 /\ q.id <= signed_out
      generate == [q.req EXCEPT !.op = "generate"]
  IN /\ phase = "online" /\ q \in wire /\ Handle(q.req, kind)
     /\ IF kind = "authenticated" THEN Remember(new)
        ELSE IF expired THEN Remember(None) ELSE UNCHANGED session
     /\ signed_out' = IF kind = "authenticated" THEN 0 ELSE signed_out
     /\ Tell((IF expired THEN <<Event("expired", None)>> ELSE <<>>)
             \o (IF kind = "authenticated" THEN <<Event(kind, new)>>
                 ELSE IF kind = "accepted" THEN <<Event(kind, None)>> ELSE <<>>))
     /\ generations' = Answered(q, kind)
     /\ IF ~expected /\ GenerateNow(q, kind)
          THEN /\ next_id' = next_id + 1
               /\ wire' = (wire \ {q}) \cup {[id |-> next_id', req |-> generate]}
          ELSE next_id' = next_id /\ wire' = wire \ {q}
     /\ UNCHANGED <<app, commands, phase, target, established, pending, trusted, typed, bounds>>

\* The link breaks; the broker may have handled a request it did not answer.
LinkLost ==
  /\ phase = "online" /\ faults < MaxFaults /\ faults' = faults + 1
  /\ phase' = "park" /\ wire' = {} /\ generations' = NoGenerations
  /\ Tell(<<Event("offline", None)>>)
  /\ \/ UNCHANGED broker
     \/ \E q \in wire, kind \in Kind :
          Handle(q.req, kind)
  /\ UNCHANGED <<app, commands, target, established, pending, session, next_id,
                 signed_out, trusted, typed, acts>>

-----------------------------------------------------------------------------
User ==
  \/ \E t \in Target : TryConnect(t)
  \/ \E b \in BOOLEAN : AnswerCertificate(b)
  \/ SubmitLogin \/ ChangeServer \/ SignOut
  \/ \E m \in Msg : SubmitMessage(m)

Task ==
  \/ Idle \/ Trust \/ Park \/ OnlineControl \/ OnlineRequest(TRUE)
  \/ Connected
  \/ \E q \in wire, kind \in Kind :
       ReadFrame(q, kind)

LinkNext ==
  User \/ HandleEvent \/ Task \/ TrustRequired \/ DialFails \/ LinkLost
  \/ OnlineRequest(FALSE)

LinkSpec == LinkInit /\ [][LinkNext]_clientVars

\* The event loop and the network task run on; the user and the faults need not.
LinkFairness == WF_clientVars(HandleEvent) /\ WF_clientVars(Task)

-----------------------------------------------------------------------------
(* Properties.                                                             *)

\* However the link breaks, a typed message reaches the broker at most once,
\* and its reply is asked for at most once and only after the broker took the
\* message (SendThenGenerate, take_accepted_generation).
ReplyFollowsItsMessage ==
  \A m \in Msg : generated[m] <= told[m] /\ told[m] <= 1

\* An attempt that finds the task without a server ends, whatever the dial, the
\* certificate question or the link does, and the form can be used again.  (One
\* made while the task still dials its last server in vain does not: the task
\* parks, and the form waits.)
ConnectingEnds == (connecting /\ target = None) ~> ~connecting

=============================================================================
