----------------------------- MODULE EdgeProofs -----------------------------
(***************************************************************************)
(* What holds at the two edges of the system, the client a user types into *)
(* and the plugins that speak to a model service; for any number of        *)
(* conversations, messages, targets and callers, any time limits, however  *)
(* often the link breaks and in whatever order answers and deltas come in: *)
(*                                                                         *)
(* - ReplyFollowsItsMessage: LinkInv says that a message the user sent off *)
(*   is in one place, in the channel to the task, parked, on the wire or   *)
(*   with the broker, and that the request for its reply is made from the  *)
(*   broker's answer to it and nowhere else;                               *)
(* - ShownIsSelected: ChatInv says that whenever the chat on the screen is *)
(*   not the selected one, the question for that one, or an answer that    *)
(*   brings the two together, is under way;                                *)
(* - PluginsAgree: PluginsInv adds to it that a call under way has a plan  *)
(*   the host accepted and whose replies its guest can read.  That every   *)
(*   plan of a bundled guest is one of those is shown plan by plan.        *)
(***************************************************************************)
EXTENDS ClientConversation, AdapterCalls, TLAPS

-----------------------------------------------------------------------------
(* The client's connection.                                                *)

\* The command x sends message m off; the queue s holds such a command, and
\* one of them only.
IsMsg(x, m) == x.op = "message" /\ x.arg.msg = m
Holds(s, m) == \E i \in 1..Len(s) : IsMsg(s[i], m)
Once(s, m) == \A i, j \in 1..Len(s) : IsMsg(s[i], m) /\ IsMsg(s[j], m) => i = j

\* A request op for message m is on the wire; there is one only.
IsReq(q, op, m) == q.req.op = op /\ q.req.msg = m
OnWire(w, op, m) == \E q \in w : IsReq(q, op, m)
Single(w, op, m) == \A q, p \in w : IsReq(q, op, m) /\ IsReq(p, op, m) => q = p

ReqFits(r) == DOMAIN r = {"op", "tok", "msg"}
CommandFits(x) ==
  /\ x.op = "message" => ReqFits(x.arg) /\ x.arg.op = "send"
  /\ x.op = "request" => ReqFits(x.arg) /\ x.arg.op \notin {"send", "generate"}
LineFits(s) == (\E S : s \in Seq(S)) /\ \A i \in 1..Len(s) : CommandFits(s[i])

\* Requests are numbered; the reply to be asked for belongs to a message.
WireFits(w, gen, next) ==
  /\ next \in Nat
  /\ \A i \in DOMAIN gen : i \in Nat /\ i <= next
  /\ \A q \in w : /\ q.id \in Nat /\ q.id <= next /\ ReqFits(q.req)
                  /\ q.id \in DOMAIN gen => q.req.op = "send"

\* A message is in one place: in the channel, parked, on the wire, or with the
\* broker, which has the reply's request on the wire at most, or has it too.
MessageFits(m, cs, ps, w, ty, t, g) ==
  /\ Once(cs, m) /\ Once(ps, m) /\ ~(Holds(cs, m) /\ Holds(ps, m))
  /\ Single(w, "send", m) /\ Single(w, "generate", m)
  /\ OnWire(w, "send", m) => ~Holds(cs, m) /\ ~Holds(ps, m)
  /\ Holds(cs, m) \/ Holds(ps, m) \/ OnWire(w, "send", m) => m \in ty /\ t = 0
  /\ OnWire(w, "generate", m) => t = 1 /\ g = 0
  /\ t \in {0, 1} /\ g \in {0, 1} /\ (t = 0 => g = 0) /\ (t = 1 => m \in ty)

LinkInv ==
  /\ LineFits(commands) /\ LineFits(pending) /\ WireFits(wire, generations, next_id)
  /\ DOMAIN told = Msg /\ DOMAIN generated = Msg
  /\ \A m \in Msg : MessageFits(m, commands, pending, wire, typed, told[m], generated[m])

-----------------------------------------------------------------------------
(* The client's connection: queues of commands.                            *)

\* The queue a is s with the command x after it.
Extended(a, s, x) ==
  \A i \in 1..Len(a) : (i \in 1..Len(s) /\ a[i] = s[i]) \/ (i = Len(s) + 1 /\ a[i] = x)

\* What Append and Tail do to a queue, place by place.
LEMMA AppendParts ==
  ASSUME NEW S, NEW s \in Seq(S), NEW x
  PROVE  /\ Append(s, x) \in Seq(S \cup {x})
         /\ Extended(Append(s, x), s, x)
<1>1. s \in Seq(S \cup {x}) /\ x \in S \cup {x}
  BY SMT
<1>2. /\ Append(s, x) \in Seq(S \cup {x}) /\ Len(s) \in Nat /\ Len(Append(s, x)) = Len(s) + 1
      /\ \A i \in 1..Len(s) : Append(s, x)[i] = s[i]
      /\ Append(s, x)[Len(s) + 1] = x
  BY SMT, <1>1
<1>3. ASSUME NEW n \in Nat, NEW i \in 1..(n + 1)
      PROVE  i \in 1..n \/ i = n + 1
  BY SMT
<1>4. ASSUME NEW i \in 1..Len(Append(s, x))
      PROVE  (i \in 1..Len(s) /\ Append(s, x)[i] = s[i]) \/ (i = Len(s) + 1 /\ Append(s, x)[i] = x)
  <2>1. i \in 1..(Len(s) + 1) /\ Len(s) \in Nat
    BY SMT, <1>2
  <2>2. i \in 1..Len(s) \/ i = Len(s) + 1
    BY Zenon, <1>3, <2>1
  <2>3. CASE i \in 1..Len(s)
    BY Zenon, <1>2, <2>3
  <2>4. CASE i = Len(s) + 1
    BY Zenon, <1>2, <2>4
  <2> QED
    BY Zenon, <2>2, <2>3, <2>4
<1> QED
  BY Zenon, <1>2, <1>4 DEF Extended

\* What Tail does to a queue, place by place.
LEMMA TailParts ==
  ASSUME NEW S, NEW s \in Seq(S), s # <<>>
  PROVE  /\ Tail(s) \in Seq(S) /\ 1 \in 1..Len(s) /\ Head(s) = s[1]
         /\ \A i \in 1..Len(Tail(s)) : i + 1 \in 1..Len(s) /\ Tail(s)[i] = s[i + 1] /\ i + 1 # 1
         /\ \A i, j \in 1..Len(Tail(s)) : i + 1 = j + 1 => i = j
BY SMT

\* Sending one command appends it.
LEMMA SendPart ==
  ASSUME NEW S, NEW s \in Seq(S), NEW x
  PROVE  s \o <<x>> = Append(s, x)
<1>1. s \in Seq(S \cup {x}) /\ x \in S \cup {x}
  BY SMT
<1> QED
  BY SMT, <1>1

\* Sending two commands appends one after the other.
LEMMA SendParts ==
  ASSUME NEW S, NEW s \in Seq(S), NEW x, NEW y
  PROVE  s \o <<x, y>> = Append(Append(s, x), y)
<1>1. s \in Seq(S \cup {x, y}) /\ x \in S \cup {x, y} /\ y \in S \cup {x, y}
  BY SMT
<1> QED
  BY SMT, <1>1

\* A queue of fitting commands stays one when another is appended, and holds
\* the messages it held and the new command's.
LEMMA LineAppend ==
  ASSUME NEW s, LineFits(s), NEW x
  PROVE  /\ CommandFits(x) => LineFits(Append(s, x))
         /\ \A m : /\ Holds(Append(s, x), m) => Holds(s, m) \/ IsMsg(x, m)
                   /\ Once(s, m) /\ ~(IsMsg(x, m) /\ Holds(s, m)) => Once(Append(s, x), m)
<1>1. PICK S : s \in Seq(S)
  BY Zenon DEF LineFits
<1>2. Append(s, x) \in Seq(S \cup {x}) /\ Extended(Append(s, x), s, x)
  BY Zenon, <1>1, AppendParts
<1>3. ASSUME NEW i \in 1..Len(Append(s, x))
      PROVE  (i \in 1..Len(s) /\ Append(s, x)[i] = s[i]) \/ (i = Len(s) + 1 /\ Append(s, x)[i] = x)
  BY Zenon, <1>2 DEF Extended
<1>4. CommandFits(x) => \A i \in 1..Len(Append(s, x)) : CommandFits(Append(s, x)[i])
  BY Zenon, <1>3 DEF LineFits
<1>5. ASSUME NEW m, Holds(Append(s, x), m) PROVE Holds(s, m) \/ IsMsg(x, m)
  BY Zenon, <1>3, <1>5 DEF Holds
<1>6. ASSUME NEW m, Once(s, m), ~(IsMsg(x, m) /\ Holds(s, m)) PROVE Once(Append(s, x), m)
  <2> SUFFICES ASSUME NEW i \in 1..Len(Append(s, x)), NEW j \in 1..Len(Append(s, x)),
                      IsMsg(Append(s, x)[i], m), IsMsg(Append(s, x)[j], m)
               PROVE  i = j
    BY Zenon DEF Once
  <2>1. CASE i \in 1..Len(s) /\ IsMsg(s[i], m)
    BY Zenon, <1>3, <1>6, <2>1 DEF Once, Holds
  <2>2. CASE i = Len(s) + 1 /\ IsMsg(x, m)
    BY Zenon, <1>3, <1>6, <2>2 DEF Once, Holds
  <2> QED
    BY Zenon, <1>3, <2>1, <2>2
<1> QED
  BY Zenon, <1>2, <1>4, <1>5, <1>6 DEF LineFits

\* Taking the first command leaves the others.
LEMMA LineTail ==
  ASSUME NEW s, LineFits(s), s # <<>>
  PROVE  /\ LineFits(Tail(s)) /\ CommandFits(Head(s))
         /\ \A m : /\ Holds(Tail(s), m) => Holds(s, m)
                   /\ Once(s, m) => Once(Tail(s), m)
                   /\ IsMsg(Head(s), m) => Holds(s, m)
                   /\ IsMsg(Head(s), m) /\ Once(s, m) => ~Holds(Tail(s), m)
<1>1. PICK S : s \in Seq(S)
  BY Zenon DEF LineFits
<1>2. /\ Tail(s) \in Seq(S) /\ 1 \in 1..Len(s) /\ Head(s) = s[1]
      /\ \A i \in 1..Len(Tail(s)) : i + 1 \in 1..Len(s) /\ Tail(s)[i] = s[i + 1] /\ i + 1 # 1
      /\ \A i, j \in 1..Len(Tail(s)) : i + 1 = j + 1 => i = j
  BY Zenon, <1>1, TailParts
<1>3. LineFits(Tail(s)) /\ CommandFits(Head(s))
  BY Zenon, <1>2 DEF LineFits
<1>4. ASSUME NEW m, Holds(Tail(s), m) PROVE Holds(s, m) /\ (Once(s, m) => ~IsMsg(Head(s), m))
  <2>1. PICK i \in 1..Len(Tail(s)) : IsMsg(Tail(s)[i], m)
    BY Zenon, <1>4 DEF Holds
  <2>2. i + 1 \in 1..Len(s) /\ IsMsg(s[i + 1], m) /\ i + 1 # 1
    BY Zenon, <1>2, <2>1
  <2> QED
    BY Zenon, <1>2, <2>2 DEF Holds, Once
<1>5. ASSUME NEW m, Once(s, m) PROVE Once(Tail(s), m)
  BY Zenon, <1>2, <1>5 DEF Once
<1>6. ASSUME NEW m, IsMsg(Head(s), m) PROVE Holds(s, m)
  BY Zenon, <1>2, <1>6 DEF Holds
<1> QED
  BY Zenon, <1>3, <1>4, <1>5, <1>6

-----------------------------------------------------------------------------
(* The client's connection: messages.                                      *)

\* Of message m there is no more in the queues c2 and p2 and on the wire w2 than
\* in cs and ps and on w.
NoMore(m, cs, ps, w, c2, p2, w2) ==
  /\ (Holds(c2, m) => Holds(cs, m)) /\ Once(c2, m)
  /\ (Holds(p2, m) => Holds(ps, m)) /\ Once(p2, m)
  /\ \A q \in w2 : q \in w \/ q.req.op \notin {"send", "generate"} \/ q.req.msg # m

\* Then it fits as before.
LEMMA FitsFewer ==
  ASSUME NEW m, NEW cs, NEW ps, NEW w, NEW ty, NEW t, NEW g, MessageFits(m, cs, ps, w, ty, t, g),
         NEW c2, NEW p2, NEW w2, NoMore(m, cs, ps, w, c2, p2, w2), NEW ty2, ty \subseteq ty2
  PROVE  MessageFits(m, c2, p2, w2, ty2, t, g)
<1>1. \A op \in {"send", "generate"} : OnWire(w2, op, m) => OnWire(w, op, m)
  BY Zenon DEF OnWire, IsReq, NoMore
<1>2. Single(w2, "send", m) /\ Single(w2, "generate", m)
  BY Zenon DEF Single, IsReq, MessageFits, NoMore
<1> QED
  BY Zenon, <1>1, <1>2 DEF MessageFits, NoMore

\* A message that is typed for the first time.
LEMMA FitsTyped ==
  ASSUME NEW m, NEW cs, NEW ps, NEW w, NEW ty, NEW t, NEW g, MessageFits(m, cs, ps, w, ty, t, g), m \notin ty,
         NEW c2, Once(c2, m)
  PROVE  MessageFits(m, c2, ps, w, ty \cup {m}, t, g)
BY Zenon DEF MessageFits

\* A message that leaves the queues for the wire.
LEMMA FitsWritten ==
  ASSUME NEW m, NEW cs, NEW ps, NEW w, NEW ty, NEW t, NEW g, MessageFits(m, cs, ps, w, ty, t, g),
         Holds(cs, m) \/ Holds(ps, m),
         NEW c2, ~Holds(c2, m), Once(c2, m), NEW p2, ~Holds(p2, m), Once(p2, m),
         NEW q, q.req.op = "send"
  PROVE  MessageFits(m, c2, p2, w \cup {q}, ty, t, g)
<1>1. ~OnWire(w, "send", m) /\ ~OnWire(w, "generate", m)
  <2>1. 0 # 1
    BY SMT
  <2> QED
    BY Zenon, <2>1 DEF MessageFits
<1>2. \A p \in w \cup {q} : IsReq(p, "send", m) => p = q
  BY Zenon, <1>1 DEF OnWire
<1>3. \A p \in w \cup {q} : ~IsReq(p, "generate", m)
  BY Zenon, <1>1 DEF OnWire, IsReq
<1>4. ~OnWire(w \cup {q}, "generate", m) /\ Single(w \cup {q}, "send", m) /\ Single(w \cup {q}, "generate", m)
  BY Zenon, <1>2, <1>3 DEF OnWire, Single
<1> QED
  BY Zenon, <1>4 DEF MessageFits

\* A message the broker was sent: it took it, and the reply may be asked for;
\* or it did not.
LEMMA FitsTold ==
  ASSUME NEW m, NEW cs, NEW ps, NEW w, NEW ty, NEW t, NEW g, MessageFits(m, cs, ps, w, ty, t, g),
         NEW q \in w, IsReq(q, "send", m), NEW w2,
         NEW p, \A r \in w2 : r \in w \ {q} \/ (r = p /\ p.req.op = "generate")
  PROVE  /\ MessageFits(m, cs, ps, w2, ty, 1, g)
         /\ (\A r \in w2 : r \in w \ {q}) => MessageFits(m, cs, ps, w2, ty, t, g)
<1>1. t = 0 /\ g = 0 /\ m \in ty /\ ~Holds(cs, m) /\ ~Holds(ps, m) /\ ~OnWire(w, "generate", m)
  <2>1. 0 # 1
    BY SMT
  <2> QED
    BY Zenon, <2>1 DEF MessageFits, OnWire
<1>2. ~OnWire(w2, "send", m) /\ Single(w2, "send", m)
  BY Zenon DEF MessageFits, OnWire, Single, IsReq
<1>3. \A r \in w2 : IsReq(r, "generate", m) => r = p
  BY Zenon, <1>1 DEF OnWire
<1>4. Single(w2, "generate", m)
  BY Zenon, <1>3 DEF Single
<1>5. MessageFits(m, cs, ps, w2, ty, 1, g)
  BY Zenon, <1>1, <1>2, <1>4 DEF MessageFits
<1>6. ASSUME \A r \in w2 : r \in w \ {q} PROVE MessageFits(m, cs, ps, w2, ty, t, g)
  BY Zenon, <1>1, <1>2, <1>4, <1>6 DEF MessageFits, OnWire
<1> QED
  BY Zenon, <1>5, <1>6

\* A reply the broker was asked for.
LEMMA FitsGenerated ==
  ASSUME NEW m, NEW cs, NEW ps, NEW w, NEW ty, NEW t, NEW g, MessageFits(m, cs, ps, w, ty, t, g),
         NEW q \in w, IsReq(q, "generate", m), NEW w2, w2 \subseteq w \ {q}, NEW g2 \in {g, 1}
  PROVE  MessageFits(m, cs, ps, w2, ty, t, g2)
<1>1. t = 1 /\ g = 0 /\ t # 0
  <2>1. 1 # 0
    BY SMT
  <2>2. t = 1 /\ g = 0
    BY Zenon DEF MessageFits, OnWire
  <2> QED
    BY Zenon, <2>1, <2>2
<1>2. ~OnWire(w2, "generate", m) /\ Single(w2, "generate", m) /\ Single(w2, "send", m)
  BY Zenon DEF MessageFits, OnWire, Single
<1>3. ~Holds(cs, m) /\ ~Holds(ps, m) /\ ~OnWire(w2, "send", m) /\ m \in ty
  BY Zenon, <1>1 DEF MessageFits, OnWire
<1>4. g2 \in {0, 1}
  BY Zenon, <1>1
<1> QED
  BY Zenon, <1>1, <1>2, <1>3, <1>4 DEF MessageFits

-----------------------------------------------------------------------------
(* The client's connection: steps.                                         *)

\* The queue s2 sends off no message that s does not.
Fewer(s2, s) == LineFits(s2) /\ \A m : (Holds(s2, m) => Holds(s, m)) /\ (Once(s, m) => Once(s2, m))

\* A queue sends off no more messages as it is, without its first command,
\* or with a command that carries no message.
LEMMA FewerOnes ==
  ASSUME NEW s, LineFits(s)
  PROVE  /\ Fewer(s, s) /\ (s # <<>> => Fewer(Tail(s), s))
         /\ \A x : CommandFits(x) /\ x.op # "message" => Fewer(Append(s, x), s)
<1>1. \A x, m : x.op # "message" => ~IsMsg(x, m)
  BY Zenon DEF IsMsg
<1>2. Fewer(s, s)
  BY Zenon DEF Fewer
<1>3. s # <<>> => Fewer(Tail(s), s)
  BY Zenon, LineTail DEF Fewer
<1>4. ASSUME NEW x, CommandFits(x), x.op # "message" PROVE Fewer(Append(s, x), s)
  <2>1. LineFits(Append(s, x))
    BY Zenon, <1>4, LineAppend
  <2>2. ASSUME NEW m PROVE (Holds(Append(s, x), m) => Holds(s, m)) /\ (Once(s, m) => Once(Append(s, x), m))
    BY Zenon, <1>1, <1>4, LineAppend
  <2> QED
    BY Zenon, <2>1, <2>2 DEF Fewer
<1> QED
  BY Zenon, <1>2, <1>3, <1>4

\* Two such changes, one after the other.
LEMMA FewerTwice ==
  ASSUME NEW s, NEW s2, NEW s3, Fewer(s2, s), Fewer(s3, s2)
  PROVE  Fewer(s3, s)
BY Zenon DEF Fewer

\* A step that sends no message off and puts none on the wire.
LEMMA LinkKept ==
  ASSUME LinkInv, Fewer(commands', commands), Fewer(pending', pending),
         WireFits(wire, generations, next_id)', typed' = typed, told' = told, generated' = generated,
         \A q \in wire' : q \in wire \/ q.req.op \notin {"send", "generate"}
  PROVE  LinkInv'
<1>1. WireFits(wire', generations', next_id')
  BY Zenon DEF WireFits
<1>2. ASSUME NEW m \in Msg
      PROVE  MessageFits(m, commands', pending', wire', typed', told'[m], generated'[m])
  <2>1. MessageFits(m, commands, pending, wire, typed, told[m], generated[m])
    BY Zenon DEF LinkInv
  <2>2. Once(commands, m) /\ Once(pending, m)
    BY Zenon, <2>1 DEF MessageFits
  <2>3. NoMore(m, commands, pending, wire, commands', pending', wire')
    BY Zenon, <2>2 DEF Fewer, NoMore
  <2> QED
    BY Zenon, <2>1, <2>3, FitsFewer
<1> QED
  BY Zenon, <1>1, <1>2 DEF LinkInv, Fewer

\* The same without a change to the wire.
LEMMA WireKept ==
  ASSUME LinkInv, Fewer(commands', commands), Fewer(pending', pending), UNCHANGED <<link, typed, told, generated>>
  PROVE  LinkInv'
<1>1. wire' = wire /\ generations' = generations /\ next_id' = next_id
  BY Zenon DEF link
<1>2. WireFits(wire, generations, next_id)'
  BY Zenon, <1>1 DEF LinkInv, WireFits
<1> QED
  BY Zenon, <1>1, <1>2, LinkKept

\* The commands and requests of the application.
LEMMA CommandsFit ==
  /\ \A op, a : op \notin {"message", "request"} => CommandFits(Command(op, a)) /\ Command(op, a).op # "message"
  /\ \A op, t, m : op \notin {"send", "generate"} =>
       /\ CommandFits(Command("request", Request(op, t, m))) /\ Command("request", Request(op, t, m)).op # "message"
  /\ \A t, m : CommandFits(Command("message", Request("send", t, m)))
  /\ \A t, m, n : IsMsg(Command("message", Request("send", t, m)), n) => n = m
BY Zenon DEF CommandFits, Command, Request, ReqFits, IsMsg

\* A step that sends a command without a message.
LEMMA SendsOne ==
  ASSUME LinkInv, NEW x, CommandFits(x), x.op # "message", commands' = commands \o <<x>>
  PROVE  Fewer(commands', commands)
<1>1. PICK S : commands \in Seq(S)
  BY Zenon DEF LinkInv, LineFits
<1>2. commands \o <<x>> = Append(commands, x)
  BY Zenon, <1>1, SendPart
<1>3. Fewer(Append(commands, x), commands)
  BY Zenon, FewerOnes DEF LinkInv
<1> QED
  BY Zenon, <1>2, <1>3

\* What the user does, other than sending a message off.
LEMMA UserLinkSteps ==
  ASSUME LinkInv, NEW t, NEW b, TryConnect(t) \/ AnswerCertificate(b) \/ SubmitLogin \/ ChangeServer
  PROVE  LinkInv'
<1>1. UNCHANGED <<link, typed, told, generated, pending>>
  BY Zenon DEF TryConnect, AnswerCertificate, SubmitLogin, ChangeServer, broker
<1>2. \/ commands' = commands \o <<Command("connect", t)>> \/ commands' = commands \o <<Command("trust", cert)>>
      \/ commands' = commands \o <<Command("reject", None)>> \/ commands' = commands \o <<Command("disconnect", None)>>
      \/ commands' = commands \o <<Command("request", Request("login", None, None))>>
  BY Zenon DEF TryConnect, AnswerCertificate, SubmitLogin, ChangeServer, Send
<1>3. "login" \notin {"send", "generate"} /\ \A o \in {"connect", "trust", "reject", "disconnect"} : o \notin {"message", "request"}
  BY Zenon
<1>4. \E x : CommandFits(x) /\ x.op # "message" /\ commands' = commands \o <<x>>
  BY Zenon, <1>2, <1>3, CommandsFit
<1>5. Fewer(commands', commands)
  BY Zenon, <1>4, SendsOne
<1>6. Fewer(pending', pending)
  BY Zenon, <1>1, FewerOnes DEF LinkInv
<1> QED
  BY Zenon, <1>1, <1>5, <1>6, WireKept

\* SignOut sends two commands.
LEMMA SignOutStep ==
  ASSUME LinkInv, SignOut
  PROVE  LinkInv'
<1> DEFINE x == Command("request", Request("logout", token, None))
           y == Command("clear", None)
<1>1. UNCHANGED <<link, typed, told, generated, pending>> /\ commands' = commands \o <<x, y>>
  BY Zenon DEF SignOut, broker, Send
<1>2. CommandFits(x) /\ x.op # "message" /\ CommandFits(y) /\ y.op # "message"
  BY Zenon, CommandsFit
<1> HIDE DEF x, y
<1>3. PICK S : commands \in Seq(S)
  BY Zenon DEF LinkInv, LineFits
<1>4. commands' = Append(Append(commands, x), y)
  <2>1. commands \o <<x, y>> = Append(Append(commands, x), y)
    BY SMT, <1>3, SendParts
  <2> QED
    BY Zenon, <1>1, <2>1
<1>5. Fewer(Append(commands, x), commands)
  BY Zenon, <1>2, FewerOnes DEF LinkInv
<1>6. Fewer(Append(Append(commands, x), y), Append(commands, x))
  BY Zenon, <1>2, <1>5, FewerOnes DEF Fewer
<1>7. Fewer(commands', commands)
  BY Zenon, <1>4, <1>5, <1>6, FewerTwice
<1>8. Fewer(pending', pending)
  BY Zenon, <1>1, FewerOnes DEF LinkInv
<1> QED
  BY Zenon, <1>1, <1>7, <1>8, WireKept

\* handle_event.
LEMMA HandleEventStep ==
  ASSUME LinkInv, HandleEvent
  PROVE  LinkInv'
<1>1. UNCHANGED <<link, typed, told, generated, pending>>
  BY Zenon DEF HandleEvent, broker
<1>2. commands' = commands \/ commands' = Append(commands, Command("request", Request("get", token', None)))
  BY Zenon DEF HandleEvent
<1>3. Fewer(Append(commands, Command("request", Request("get", token', None))), commands)
  <2>1. "get" \notin {"send", "generate"}
    BY Zenon
  <2> QED
    BY Zenon, <2>1, FewerOnes, CommandsFit DEF LinkInv
<1>4. Fewer(commands', commands)
  BY Zenon, <1>2, <1>3, FewerOnes DEF LinkInv
<1>5. Fewer(pending', pending)
  BY Zenon, <1>1, FewerOnes DEF LinkInv
<1> QED
  BY Zenon, <1>1, <1>4, <1>5, WireKept

\* submit_message.
LEMMA SubmitStep ==
  ASSUME LinkInv, NEW m, SubmitMessage(m)
  PROVE  LinkInv'
<1> DEFINE x == Command("message", Request("send", token, m))
<1>1. /\ wire' = wire /\ generations' = generations /\ next_id' = next_id /\ pending' = pending
      /\ told' = told /\ generated' = generated /\ typed' = typed \cup {m} /\ m \notin typed
      /\ commands' = commands \o <<x>>
  BY Zenon DEF SubmitMessage, Send, link, broker
<1>2. CommandFits(x) /\ \A n : IsMsg(x, n) => n = m
  BY Zenon, CommandsFit
<1> HIDE DEF x
<1>3. PICK S : commands \in Seq(S)
  BY Zenon DEF LinkInv, LineFits
<1>4. commands \o <<x>> = Append(commands, x)
  BY Zenon, <1>3, SendPart
<1>5. commands' = Append(commands, x)
  BY Zenon, <1>1, <1>4
<1>6. /\ LineFits(Append(commands, x))
      /\ \A n : /\ Holds(Append(commands, x), n) => Holds(commands, n) \/ IsMsg(x, n)
                /\ Once(commands, n) /\ ~(IsMsg(x, n) /\ Holds(commands, n)) => Once(Append(commands, x), n)
  BY Zenon, <1>2, LineAppend DEF LinkInv
<1>7. ASSUME NEW n \in Msg
      PROVE  MessageFits(n, commands', pending', wire', typed', told'[n], generated'[n])
  <2>1. MessageFits(n, commands, pending, wire, typed, told[n], generated[n])
    BY Zenon DEF LinkInv
  <2>2. CASE n = m
    <3>1. ~Holds(commands, n) /\ Once(commands, n)
      BY Zenon, <1>1, <2>1, <2>2 DEF MessageFits
    <3>2. Once(Append(commands, x), n)
      BY Zenon, <1>6, <3>1
    <3>3. MessageFits(n, Append(commands, x), pending, wire, typed \cup {n}, told[n], generated[n])
      BY Zenon, <1>1, <2>1, <2>2, <3>2, FitsTyped
    <3> QED
      BY Zenon, <1>1, <1>5, <2>2, <3>3
  <2>3. CASE n # m
    <3>1. Once(commands, n) /\ Once(pending, n)
      BY Zenon, <2>1 DEF MessageFits
    <3>2. NoMore(n, commands, pending, wire, Append(commands, x), pending, wire)
      BY Zenon, <1>2, <1>6, <2>3, <3>1 DEF NoMore
    <3>3. MessageFits(n, Append(commands, x), pending, wire, typed \cup {m}, told[n], generated[n])
      BY Zenon, <2>1, <3>2, FitsFewer
    <3> QED
      BY Zenon, <1>1, <1>5, <3>3
  <2> QED
    BY Zenon, <2>2, <2>3
<1> QED
  BY Zenon, <1>1, <1>5, <1>6, <1>7 DEF LinkInv

\* A command is heard without a link, or in answer to the certificate question.
LEMMA HeardSteps ==
  ASSUME LinkInv, Idle \/ Trust
  PROVE  LinkInv'
<1>1. UNCHANGED <<link, typed, told, generated, pending>> /\ commands # <<>> /\ commands' = Tail(commands)
  BY Zenon DEF Idle, Trust, broker
<1>2. Fewer(commands', commands) /\ Fewer(pending', pending)
  BY Zenon, <1>1, FewerOnes DEF LinkInv
<1> QED
  BY Zenon, <1>1, <1>2, WireKept

\* A dial that fails or asks for trust.
LEMMA DialSteps ==
  ASSUME LinkInv, TrustRequired \/ DialFails
  PROVE  LinkInv'
<1>1. UNCHANGED <<link, typed, told, generated, pending, commands>>
  BY Zenon DEF TrustRequired, DialFails, broker
<1>2. Fewer(commands', commands) /\ Fewer(pending', pending)
  BY Zenon, <1>1, FewerOnes DEF LinkInv
<1> QED
  BY Zenon, <1>1, <1>2, WireKept

\* park_for_command: the command waits elsewhere.
LEMMA ParkStep ==
  ASSUME LinkInv, Park
  PROVE  LinkInv'
<1> DEFINE x == Head(commands)
           c2 == Tail(commands)
           p2 == Append(pending, x)
<1>1. /\ wire' = wire /\ generations' = generations /\ next_id' = next_id
      /\ told' = told /\ generated' = generated /\ typed' = typed
      /\ commands # <<>> /\ commands' = c2 /\ pending' = p2
  BY Zenon DEF Park, link, broker
<1>2. /\ LineFits(c2) /\ CommandFits(x)
      /\ \A m : /\ Holds(c2, m) => Holds(commands, m)
                /\ Once(commands, m) => Once(c2, m)
                /\ IsMsg(x, m) => Holds(commands, m)
                /\ IsMsg(x, m) /\ Once(commands, m) => ~Holds(c2, m)
  BY Zenon, <1>1, LineTail DEF LinkInv
<1> HIDE DEF x, c2
<1>3. /\ LineFits(p2)
      /\ \A m : /\ Holds(p2, m) => Holds(pending, m) \/ IsMsg(x, m)
                /\ Once(pending, m) /\ ~(IsMsg(x, m) /\ Holds(pending, m)) => Once(p2, m)
  BY Zenon, <1>2, LineAppend DEF LinkInv
<1> HIDE DEF p2
<1>4. ASSUME NEW m \in Msg
      PROVE  MessageFits(m, c2, p2, wire, typed, told[m], generated[m])
  <2>1. MessageFits(m, commands, pending, wire, typed, told[m], generated[m])
    BY Zenon DEF LinkInv
  <2>2. CASE IsMsg(x, m)
    <3>1. Holds(commands, m) /\ ~Holds(pending, m) /\ ~OnWire(wire, "send", m) /\ m \in typed /\ told[m] = 0
      BY Zenon, <1>2, <2>1, <2>2 DEF MessageFits
    <3>2. ~Holds(c2, m) /\ Once(c2, m) /\ Once(p2, m)
      BY Zenon, <1>2, <1>3, <2>1, <2>2, <3>1 DEF MessageFits
    <3> QED
      BY Zenon, <2>1, <3>1, <3>2 DEF MessageFits
  <2>3. CASE ~IsMsg(x, m)
    <3>1. Once(commands, m) /\ Once(pending, m)
      BY Zenon, <2>1 DEF MessageFits
    <3>2. NoMore(m, commands, pending, wire, c2, p2, wire)
      BY Zenon, <1>2, <1>3, <2>3, <3>1 DEF NoMore
    <3> QED
      BY Zenon, <2>1, <3>2, FitsFewer
  <2> QED
    BY Zenon, <2>2, <2>3
<1>5. ASSUME NEW m \in Msg
      PROVE  MessageFits(m, commands', pending', wire', typed', told'[m], generated'[m])
  BY Zenon, <1>1, <1>4
<1> QED
  BY Zenon, <1>1, <1>2, <1>3, <1>5 DEF LinkInv

\* Numbers of requests.
LEMMA Numbers ==
  ASSUME NEW n \in Nat
  PROVE  /\ n + 1 \in Nat /\ n + 1 <= n + 1 /\ n + 2 \in Nat /\ n + 2 <= n + 2
         /\ \A i \in Nat : i <= n => i <= n + 1 /\ i # n + 1
BY SMT

\* A request is written under a new number.
LEMMA WireWrite ==
  ASSUME NEW w, NEW gen, NEW n, WireFits(w, gen, n), NEW r, ReqFits(r), NEW gen2,
         DOMAIN gen2 = DOMAIN gen \/ (DOMAIN gen2 = DOMAIN gen \cup {n + 1} /\ r.op = "send")
  PROVE  WireFits(w \cup {[id |-> n + 1, req |-> r]}, gen2, n + 1)
<1>1. n \in Nat /\ n + 1 \in Nat /\ n + 1 <= n + 1 /\ \A i \in Nat : i <= n => i <= n + 1 /\ i # n + 1
  BY Zenon, Numbers DEF WireFits
<1> DEFINE p == [id |-> n + 1, req |-> r]
<1>2. p.id = n + 1 /\ p.req = r
  BY Zenon
<1> HIDE DEF p
<1>3. \A i \in DOMAIN gen2 : i \in Nat /\ i <= n + 1
  BY Zenon, <1>1 DEF WireFits
<1>4. ASSUME NEW q \in w
      PROVE  q.id \in Nat /\ q.id <= n + 1 /\ ReqFits(q.req) /\ (q.id \in DOMAIN gen2 => q.req.op = "send")
  BY Zenon, <1>1 DEF WireFits
<1>5. p.id \in Nat /\ p.id <= n + 1 /\ ReqFits(p.req)
  BY SMT, <1>1, <1>2
<1>6. p.id \in DOMAIN gen2 => p.req.op = "send"
  <2>1. n + 1 \notin DOMAIN gen
    BY Zenon, <1>1 DEF WireFits
  <2>2. DOMAIN gen2 = DOMAIN gen => n + 1 \notin DOMAIN gen2
    BY Zenon, <2>1
  <2> QED
    BY Zenon, <1>2, <2>2
<1>7. WireFits(w \cup {p}, gen2, n + 1)
  BY Zenon, <1>1, <1>3, <1>4, <1>5, <1>6 DEF WireFits
<1> QED
  BY Zenon, <1>7 DEF p

\* Fewer requests on the wire, and fewer replies to ask for.
LEMMA WireLess ==
  ASSUME NEW w, NEW gen, NEW n, WireFits(w, gen, n), NEW w2, w2 \subseteq w,
         NEW gen2, DOMAIN gen2 \subseteq DOMAIN gen
  PROVE  WireFits(w2, gen2, n)
BY Zenon DEF WireFits

\* A broken link leaves no reply to ask for.
LEMMA NoneWaits == DOMAIN NoGenerations = {}
BY Zenon DEF NoGenerations

\* A new connection.
LEMMA ConnectedStep ==
  ASSUME LinkInv, Connected
  PROVE  LinkInv'
<1> DEFINE resume == remembered # None /\ remembered.broker = target
           again == [id |-> next_id + 2, req |-> Request("resume", remembered, None)]
<1>1. /\ pending' = pending /\ commands' = commands /\ typed' = typed /\ told' = told
      /\ generated' = generated /\ generations' = NoGenerations
      /\ \/ wire' = {again} /\ next_id' = next_id + 2
         \/ wire' = {} /\ next_id' = next_id + 1
  <2>1. pending' = pending /\ commands' = commands /\ typed' = typed /\ told' = told
    BY Zenon DEF Connected, broker
  <2>2. generated' = generated /\ generations' = NoGenerations
    BY Zenon DEF Connected, broker
  <2>3. wire' = (IF resume THEN {again} ELSE {}) /\ next_id' = next_id + (IF resume THEN 2 ELSE 1)
    BY Zenon DEF Connected
  <2> QED
    BY Zenon, <2>1, <2>2, <2>3
<1>2. again.id = next_id + 2 /\ again.req = Request("resume", remembered, None)
  BY Zenon
<1>3. ReqFits(Request("resume", remembered, None)) /\ Request("resume", remembered, None).op = "resume"
  BY Zenon DEF ReqFits, Request
<1> HIDE DEF again
<1>4. next_id \in Nat /\ next_id + 1 \in Nat /\ next_id + 2 \in Nat /\ next_id + 2 <= next_id + 2
  BY Zenon, Numbers DEF LinkInv, WireFits
<1>5. /\ WireFits({}, NoGenerations, next_id + 1)
      /\ WireFits({again}, NoGenerations, next_id + 2)
  BY Zenon, <1>2, <1>3, <1>4, NoneWaits DEF WireFits
<1>6. WireFits(wire', generations', next_id')
  BY Zenon, <1>1, <1>5
<1>7. WireFits(wire, generations, next_id)'
  BY Zenon, <1>6 DEF WireFits
<1>8. again.req.op \notin {"send", "generate"}
  BY Zenon, <1>2, <1>3
<1>9. \A q \in wire' : q \in wire \/ q.req.op \notin {"send", "generate"}
  BY Zenon, <1>1, <1>8
<1>10. Fewer(commands', commands) /\ Fewer(pending', pending)
  BY Zenon, <1>1, FewerOnes DEF LinkInv
<1> QED
  BY Zenon, <1>1, <1>7, <1>9, <1>10, LinkKept

\* What comes first when parked commands are put before the ones in the channel.
LEMMA FirstOfTwo ==
  ASSUME NEW S, NEW p \in Seq(S), NEW T, NEW s \in Seq(T)
  PROVE  /\ p # <<>> => Head(p \o s) = Head(p)
         /\ p = <<>> => p \o s = s
<1>1. p \in Seq(S \cup T) /\ s \in Seq(S \cup T)
  BY SMT
<1>2. p # <<>> => Head(p \o s) = Head(p)
  BY SMT, <1>1
<1>3. p = <<>> => p \o s = s
  BY SMT, <1>1
<1> QED
  BY Zenon, <1>2, <1>3

\* next_command: the command it takes was the only one of its message.
LEMMA Taken ==
  ASSUME LinkInv, Online
  PROVE  /\ CommandFits(NextCommand) /\ Fewer(commands', commands) /\ Fewer(pending', pending)
         /\ \A m \in Msg : IsMsg(NextCommand, m) =>
              /\ Holds(commands, m) \/ Holds(pending, m)
              /\ ~Holds(commands', m) /\ ~Holds(pending', m)
<1>1. PICK S : pending \in Seq(S)
  BY Zenon DEF LinkInv, LineFits
<1>2. PICK T : commands \in Seq(T)
  BY Zenon DEF LinkInv, LineFits
<1>3. /\ pending # <<>> => Head(pending \o commands) = Head(pending)
      /\ pending = <<>> => pending \o commands = commands
  BY Zenon, <1>1, <1>2, FirstOfTwo
<1>4. \A m \in Msg : Once(commands, m) /\ Once(pending, m) /\ ~(Holds(commands, m) /\ Holds(pending, m))
  BY Zenon DEF LinkInv, MessageFits
<1>5. LineFits(commands) /\ LineFits(pending)
  BY Zenon DEF LinkInv
<1>6. CASE pending # <<>>
  <2>1. NextCommand = Head(pending) /\ pending' = Tail(pending) /\ commands' = commands
    BY Zenon, <1>3, <1>6 DEF NextCommand, Online, TakeCommand
  <2>2. Fewer(Tail(pending), pending) /\ Fewer(commands, commands) /\ CommandFits(Head(pending))
    BY Zenon, <1>5, <1>6, FewerOnes, LineTail
  <2>3. \A m : IsMsg(Head(pending), m) => Holds(pending, m) /\ (Once(pending, m) => ~Holds(Tail(pending), m))
    BY Zenon, <1>5, <1>6, LineTail
  <2>4. \A m \in Msg : IsMsg(Head(pending), m) => Holds(pending, m) /\ ~Holds(Tail(pending), m) /\ ~Holds(commands, m)
    BY Zenon, <1>4, <2>3
  <2> QED
    BY Zenon, <2>1, <2>2, <2>4
<1>7. CASE pending = <<>>
  <2>1. NextCommand = Head(commands) /\ commands # <<>> /\ commands' = Tail(commands) /\ pending' = pending
    BY Zenon, <1>3, <1>7 DEF NextCommand, Online, TakeCommand
  <2>2. Fewer(Tail(commands), commands) /\ Fewer(pending, pending) /\ CommandFits(Head(commands))
    BY Zenon, <1>5, <2>1, FewerOnes, LineTail
  <2>3. \A m : IsMsg(Head(commands), m) => Holds(commands, m) /\ (Once(commands, m) => ~Holds(Tail(commands), m))
    BY Zenon, <1>5, <2>1, LineTail
  <2>4. \A m \in Msg : IsMsg(Head(commands), m) => Holds(commands, m) /\ ~Holds(Tail(commands), m) /\ ~Holds(pending, m)
    BY Zenon, <1>4, <2>3
  <2> QED
    BY Zenon, <2>1, <2>2, <2>4
<1> QED
  BY Zenon, <1>6, <1>7

\* A command that writes nothing.
LEMMA OnlineControlStep ==
  ASSUME LinkInv, OnlineControl
  PROVE  LinkInv'
<1>1. /\ Online /\ wire' = wire /\ generations' = generations /\ next_id' = next_id
      /\ told' = told /\ generated' = generated /\ typed' = typed
  BY Zenon DEF OnlineControl, broker
<1>2. Fewer(commands', commands) /\ Fewer(pending', pending)
  BY Zenon, <1>1, Taken
<1>3. WireFits(wire, generations, next_id)'
  BY Zenon, <1>1 DEF LinkInv, WireFits
<1> QED
  BY Zenon, <1>1, <1>2, <1>3, LinkKept

\* A write that fails loses the command and the link.
LEMMA WriteLost ==
  ASSUME LinkInv, OnlineRequest(FALSE)
  PROVE  LinkInv'
<1>1. /\ Online /\ wire' = {} /\ generations' = NoGenerations /\ next_id' = next_id + 1
      /\ told' = told /\ generated' = generated /\ typed' = typed
  BY Zenon DEF OnlineRequest, broker
<1>2. Fewer(commands', commands) /\ Fewer(pending', pending)
  BY Zenon, <1>1, Taken
<1>3. next_id + 1 \in Nat
  BY Zenon, Numbers DEF LinkInv, WireFits
<1>4. WireFits({}, NoGenerations, next_id + 1)
  BY Zenon, <1>3, NoneWaits DEF WireFits
<1>5. WireFits(wire, generations, next_id)'
  BY Zenon, <1>1, <1>4 DEF WireFits
<1> QED
  BY Zenon, <1>1, <1>2, <1>5, LinkKept

\* A request, or a message, is written.
LEMMA WriteStep ==
  ASSUME LinkInv, OnlineRequest(TRUE)
  PROVE  LinkInv'
<1> DEFINE c == NextCommand
           q == [id |-> next_id + 1, req |-> c.arg]
<1>1. /\ Online /\ c.op \in {"request", "message"} /\ next_id' = next_id + 1
      /\ told' = told /\ generated' = generated /\ typed' = typed
  BY Zenon DEF OnlineRequest, broker, Write
<1>2. wire' = wire \cup {q}
  BY Zenon DEF OnlineRequest, Write
<1>3. \/ DOMAIN generations' = DOMAIN generations
      \/ DOMAIN generations' = DOMAIN generations \cup {next_id + 1} /\ c.op = "message"
  <2>1. generations' = (IF c.op = "message"
                        THEN [i \in DOMAIN generations \cup {next_id + 1} |->
                                IF i = next_id + 1 THEN c.arg ELSE generations[i]]
                        ELSE generations)
    BY Zenon DEF OnlineRequest
  <2> HIDE DEF c
  <2> QED
    BY Zenon, <2>1
<1>4. CommandFits(c) /\ Fewer(commands', commands) /\ Fewer(pending', pending)
  BY Zenon, <1>1, Taken
<1>5. \A m \in Msg : IsMsg(c, m) =>
        /\ Holds(commands, m) \/ Holds(pending, m)
        /\ ~Holds(commands', m) /\ ~Holds(pending', m)
  BY Zenon, <1>1, Taken
<1>6. q.req = c.arg
  BY Zenon
<1> HIDE DEF c
<1>7. /\ ReqFits(c.arg) /\ (c.op = "message" => c.arg.op = "send")
      /\ c.op # "message" => c.arg.op \notin {"send", "generate"}
  BY Zenon, <1>1, <1>4 DEF CommandFits
<1>8. WireFits(wire', generations', next_id')
  <2>1. WireFits(wire, generations, next_id)
    BY Zenon DEF LinkInv
  <2>2. WireFits(wire \cup {q}, generations', next_id + 1)
    BY Zenon, <1>3, <1>7, <2>1, WireWrite
  <2> QED
    BY Zenon, <1>1, <1>2, <2>2
<1> HIDE DEF q
<1>9. ASSUME NEW m \in Msg
      PROVE  MessageFits(m, commands', pending', wire \cup {q}, typed, told[m], generated[m])
  <2>1. MessageFits(m, commands, pending, wire, typed, told[m], generated[m])
    BY Zenon DEF LinkInv
  <2>2. Once(commands', m) /\ Once(pending', m)
    BY Zenon, <1>4, <2>1 DEF MessageFits, Fewer
  <2>3. CASE IsMsg(c, m)
    <3>1. q.req.op = "send"
      BY Zenon, <1>6, <1>7, <2>3 DEF IsMsg
    <3>2. (Holds(commands, m) \/ Holds(pending, m)) /\ ~Holds(commands', m) /\ ~Holds(pending', m)
      BY Zenon, <1>5, <2>3
    <3> QED
      BY Zenon, <2>1, <2>2, <3>1, <3>2, FitsWritten
  <2>4. CASE ~IsMsg(c, m)
    <3>1. q.req.op \notin {"send", "generate"} \/ q.req.msg # m
      BY Zenon, <1>6, <1>7, <2>4 DEF IsMsg
    <3>2. NoMore(m, commands, pending, wire, commands', pending', wire \cup {q})
      BY Zenon, <1>4, <2>2, <3>1 DEF NoMore, Fewer
    <3> QED
      BY Zenon, <2>1, <3>2, FitsFewer
  <2> QED
    BY Zenon, <2>3, <2>4
<1>10. ASSUME NEW m \in Msg
       PROVE  MessageFits(m, commands', pending', wire', typed', told'[m], generated'[m])
  BY Zenon, <1>1, <1>2, <1>9
<1> QED
  BY Zenon, <1>1, <1>4, <1>8, <1>10 DEF LinkInv, Fewer

\* What the broker does with request r, for message m: it takes it, runs a
\* generation, or neither.
Handled(r, kind, m) ==
  /\ told'[m] = (IF r.op = "send" /\ kind = "accepted" /\ r.msg = m THEN told[m] + 1 ELSE told[m])
  /\ \/ generated'[m] = generated[m]
     \/ r.op = "generate" /\ r.msg = m /\ generated'[m] = generated[m] + 1
  /\ kind = "accepted" => r.op \in {"logout", "send"}

\* Handle does no more than that.
LEMMA HandleEffect ==
  ASSUME LinkInv, NEW r, NEW kind, Handle(r, kind), NEW m \in Msg
  PROVE  Handled(r, kind, m)
<1>1. DOMAIN told = Msg /\ DOMAIN generated = Msg
  BY Zenon DEF LinkInv
<1>2. told' = (IF r.op = "send" /\ kind = "accepted" THEN [told EXCEPT ![r.msg] = told[r.msg] + 1] ELSE told)
  BY Zenon DEF Handle
<1>3. \/ generated' = generated
      \/ r.op = "generate" /\ generated' = [generated EXCEPT ![r.msg] = generated[r.msg] + 1]
  BY Zenon DEF Handle
<1>4. kind = "accepted" => r.op \in {"logout", "send"}
  BY Zenon DEF Handle
<1>5. told'[m] = (IF r.op = "send" /\ kind = "accepted" /\ r.msg = m THEN told[m] + 1 ELSE told[m])
  BY Zenon, <1>1, <1>2
<1>6. generated'[m] = generated[m] \/ (r.op = "generate" /\ r.msg = m /\ generated'[m] = generated[m] + 1)
  BY Zenon, <1>1, <1>3
<1> QED
  BY Zenon, <1>4, <1>5, <1>6 DEF Handled

\* Handle counts messages, and no more of them.
LEMMA HandleDomains ==
  ASSUME LinkInv, NEW r, NEW kind, Handle(r, kind)
  PROVE  DOMAIN told' = Msg /\ DOMAIN generated' = Msg
<1>1. DOMAIN told = Msg /\ DOMAIN generated = Msg
  BY Zenon DEF LinkInv
<1>2. told' = (IF r.op = "send" /\ kind = "accepted" THEN [told EXCEPT ![r.msg] = told[r.msg] + 1] ELSE told)
  BY Zenon DEF Handle
<1>3. \/ generated' = generated
      \/ r.op = "generate" /\ generated' = [generated EXCEPT ![r.msg] = generated[r.msg] + 1]
  BY Zenon DEF Handle
<1> QED
  BY Zenon, <1>1, <1>2, <1>3

\* What is left on the wire, w2, once the broker handled request q: what was
\* there without q, and the request p for the reply if q's message was taken.
Released(q, kind, w2, p) ==
  \/ \A r \in w2 : r \in wire \ {q}
  \/ /\ q.req.op = "send" /\ kind = "accepted" /\ p.req.op = "generate" /\ p.req.msg = q.req.msg
     /\ \A r \in w2 : r \in wire \ {q} \/ r = p

\* Every message fits after a request was handled.
LEMMA HandledFits ==
  ASSUME LinkInv, NEW q \in wire, NEW kind, Handle(q.req, kind), NEW w2, NEW p, Released(q, kind, w2, p), NEW m \in Msg
  PROVE  MessageFits(m, commands, pending, w2, typed, told'[m], generated'[m])
<1>1. MessageFits(m, commands, pending, wire, typed, told[m], generated[m])
  BY Zenon DEF LinkInv
<1>2. Handled(q.req, kind, m)
  BY Zenon, HandleEffect
<1>3. 0 + 1 = 1
  BY SMT
<1>4. CASE IsReq(q, "send", m)
  <2>1. q.req.op = "send" /\ q.req.msg = m /\ q.req.op # "generate"
    BY Zenon, <1>4 DEF IsReq
  <2>2. \A r \in w2 : r \in wire \ {q} \/ (r = p /\ p.req.op = "generate")
    BY Zenon DEF Released
  <2>3. /\ MessageFits(m, commands, pending, w2, typed, 1, generated[m])
        /\ (\A r \in w2 : r \in wire \ {q}) => MessageFits(m, commands, pending, w2, typed, told[m], generated[m])
    BY Zenon, <1>1, <1>4, <2>2, FitsTold
  <2>4. generated'[m] = generated[m]
    BY Zenon, <1>2, <2>1 DEF Handled
  <2>5. CASE kind = "accepted"
    <3>1. told[m] = 0
      BY Zenon, <1>1, <1>4 DEF MessageFits, OnWire
    <3>2. told'[m] = 1
      BY Zenon, <1>2, <1>3, <2>1, <2>5, <3>1 DEF Handled
    <3> QED
      BY Zenon, <2>3, <2>4, <3>2
  <2>6. CASE kind # "accepted"
    <3>1. told'[m] = told[m]
      BY Zenon, <1>2, <2>6 DEF Handled
    <3>2. \A r \in w2 : r \in wire \ {q}
      BY Zenon, <2>6 DEF Released
    <3> QED
      BY Zenon, <2>3, <2>4, <3>1, <3>2
  <2> QED
    BY Zenon, <2>5, <2>6
<1>5. CASE IsReq(q, "generate", m)
  <2>1. q.req.op = "generate" /\ q.req.op # "send"
    BY Zenon, <1>5 DEF IsReq
  <2>2. told'[m] = told[m]
    BY Zenon, <1>2, <2>1 DEF Handled
  <2>3. w2 \subseteq wire \ {q}
    BY Zenon, <1>2, <2>1 DEF Released, Handled
  <2>4. generated[m] = 0
    BY Zenon, <1>1, <1>5 DEF MessageFits, OnWire
  <2>5. generated'[m] \in {generated[m], 1}
    BY Zenon, <1>2, <1>3, <2>4 DEF Handled
  <2>6. MessageFits(m, commands, pending, w2, typed, told[m], generated'[m])
    BY Zenon, <1>1, <1>5, <2>3, <2>5, FitsGenerated
  <2> QED
    BY Zenon, <2>2, <2>6
<1>6. CASE ~IsReq(q, "send", m) /\ ~IsReq(q, "generate", m)
  <2>1. told'[m] = told[m] /\ generated'[m] = generated[m]
    BY Zenon, <1>2, <1>6 DEF IsReq, Handled
  <2>2. \A r \in w2 : r \in wire \/ r.req.op \notin {"send", "generate"} \/ r.req.msg # m
    BY Zenon, <1>6 DEF Released, IsReq
  <2>3. Once(commands, m) /\ Once(pending, m)
    BY Zenon, <1>1 DEF MessageFits
  <2>4. NoMore(m, commands, pending, wire, commands, pending, w2)
    BY Zenon, <2>2, <2>3 DEF NoMore
  <2>5. MessageFits(m, commands, pending, w2, typed, told[m], generated[m])
    BY Zenon, <1>1, <2>4, FitsFewer
  <2> QED
    BY Zenon, <2>1, <2>5
<1> QED
  BY Zenon, <1>4, <1>5, <1>6

\* What a step does that has the broker handle a request.
LEMMA HandledStep ==
  ASSUME LinkInv, NEW q \in wire, NEW kind, Handle(q.req, kind), NEW p, Released(q, kind, wire', p),
         WireFits(wire', generations', next_id'), UNCHANGED <<commands, pending, typed>>
  PROVE  LinkInv'
<1>1. ASSUME NEW m \in Msg
      PROVE  MessageFits(m, commands', pending', wire', typed', told'[m], generated'[m])
  <2>1. MessageFits(m, commands, pending, wire', typed, told'[m], generated'[m])
    BY Zenon, HandledFits
  <2> QED
    BY Zenon, <2>1
<1>2. DOMAIN told' = Msg /\ DOMAIN generated' = Msg
  BY Zenon, HandleDomains
<1> QED
  BY Zenon, <1>1, <1>2 DEF LinkInv

\* read_frame.
LEMMA ReadFrameStep ==
  ASSUME LinkInv, NEW q \in wire, NEW kind, ReadFrame(q, kind)
  PROVE  LinkInv'
<1> DEFINE now == [q.req EXCEPT !.op = "generate"]
           p == [id |-> next_id + 1, req |-> now]
           w == wire \ {q}
<1>1. /\ Handle(q.req, kind) /\ UNCHANGED <<commands, pending, typed>>
      /\ generations' = Answered(q, kind)
  BY Zenon DEF ReadFrame
<1>2. \/ wire' = w /\ next_id' = next_id
      \/ wire' = w \cup {p} /\ next_id' = next_id + 1 /\ GenerateNow(q, kind)
  BY Zenon DEF ReadFrame
<1>3. WireFits(wire, generations, next_id) /\ ReqFits(q.req)
  BY Zenon DEF LinkInv, WireFits
<1>4. ReqFits(now) /\ now.op = "generate" /\ now.msg = q.req.msg
  BY Zenon, <1>3 DEF ReqFits
<1>5. p.req = now
  BY Zenon
<1>6. DOMAIN generations' \subseteq DOMAIN generations
  BY Zenon, <1>1 DEF Answered
<1>7. WireFits(w, generations', next_id)
  BY Zenon, <1>3, <1>6, WireLess
<1> HIDE DEF now
<1>8. WireFits(w \cup {p}, generations', next_id + 1)
  BY Zenon, <1>4, <1>7, WireWrite
<1>9. WireFits(wire', generations', next_id')
  BY Zenon, <1>2, <1>7, <1>8
<1> HIDE DEF p
<1>10. GenerateNow(q, kind) => kind = "accepted" /\ q.req.op = "send"
  BY Zenon, <1>3 DEF GenerateNow, WireFits
<1>11. Released(q, kind, wire', p)
  <2>1. CASE wire' = w
    BY Zenon, <2>1 DEF Released
  <2>2. CASE wire' = w \cup {p} /\ GenerateNow(q, kind)
    <3>1. p.req.op = "generate" /\ p.req.msg = q.req.msg
      BY Zenon, <1>4, <1>5
    <3> QED
      BY Zenon, <1>10, <2>2, <3>1 DEF Released
  <2> QED
    BY Zenon, <1>2, <2>1, <2>2
<1> QED
  BY Zenon, <1>1, <1>9, <1>11, HandledStep

\* The link breaks, with a request handled or not.
LEMMA LinkLostStep ==
  ASSUME LinkInv, LinkLost
  PROVE  LinkInv'
<1>1. /\ wire' = {} /\ generations' = NoGenerations /\ next_id' = next_id
      /\ UNCHANGED <<commands, pending, typed>>
  BY Zenon DEF LinkLost
<1>2. (told' = told /\ generated' = generated) \/ \E q \in wire, kind \in Kind : Handle(q.req, kind)
  BY Zenon DEF LinkLost, broker
<1>3. next_id \in Nat
  BY Zenon DEF LinkInv, WireFits
<1>4. WireFits({}, NoGenerations, next_id)
  BY Zenon, <1>3, NoneWaits DEF WireFits
<1>5. WireFits(wire', generations', next_id')
  BY Zenon, <1>1, <1>4
<1>6. CASE told' = told /\ generated' = generated
  <2>1. WireFits(wire, generations, next_id)'
    BY Zenon, <1>5 DEF WireFits
  <2>2. Fewer(commands', commands) /\ Fewer(pending', pending)
    BY Zenon, <1>1, FewerOnes DEF LinkInv
  <2> QED
    BY Zenon, <1>1, <1>6, <2>1, <2>2, LinkKept
<1>7. ASSUME NEW q \in wire, NEW kind \in Kind, Handle(q.req, kind) PROVE LinkInv'
  <2>1. Released(q, kind, wire', q)
    BY Zenon, <1>1 DEF Released
  <2> QED
    BY Zenon, <1>1, <1>5, <1>7, <2>1, HandledStep
<1> QED
  BY Zenon, <1>2, <1>6, <1>7

\* Nothing happens to the connection.
LEMMA LinkStutter ==
  ASSUME LinkInv, UNCHANGED clientVars
  PROVE  LinkInv'
<1>1. UNCHANGED <<link, typed, told, generated, pending, commands>>
  BY Zenon DEF clientVars, broker
<1>2. Fewer(commands', commands) /\ Fewer(pending', pending)
  BY Zenon, <1>1, FewerOnes DEF LinkInv
<1> QED
  BY Zenon, <1>1, <1>2, WireKept

\* However the link breaks and whatever the broker answers, a message is in one
\* place at a time.
THEOREM LinkInvariant == LinkSpec => []LinkInv
<1>1. LinkInit => LinkInv
  <2> SUFFICES ASSUME LinkInit PROVE LinkInv
    OBVIOUS
  <2>1. /\ commands = <<>> /\ pending = <<>> /\ wire = {} /\ generations = NoGenerations /\ next_id = 1
        /\ typed = {} /\ told = [m \in Msg |-> 0] /\ generated = [m \in Msg |-> 0]
    BY Zenon DEF LinkInit
  <2>2. <<>> \in Seq({}) /\ Len(<<>>) = 0 /\ 1..0 = {} /\ 1 \in Nat /\ 0 # 1
    BY SMT
  <2>3. LineFits(<<>>) /\ \A m : ~Holds(<<>>, m) /\ Once(<<>>, m)
    BY Zenon, <2>2 DEF LineFits, Holds, Once
  <2>4. WireFits({}, NoGenerations, 1)
    BY Zenon, <2>2, NoneWaits DEF WireFits
  <2>5. \A m : MessageFits(m, <<>>, <<>>, {}, {}, 0, 0)
    BY Zenon, <2>2, <2>3 DEF MessageFits, OnWire, Single
  <2>6. \A m \in Msg : told[m] = 0 /\ generated[m] = 0
    BY Zenon, <2>1
  <2>7. \A m \in Msg : MessageFits(m, commands, pending, wire, typed, told[m], generated[m])
    BY Zenon, <2>1, <2>5, <2>6
  <2> QED
    BY Zenon, <2>1, <2>3, <2>4, <2>7 DEF LinkInv
<1>2. LinkInv /\ [LinkNext]_clientVars => LinkInv'
  <2> SUFFICES ASSUME LinkInv, LinkNext PROVE LinkInv'
    BY Zenon, LinkStutter
  <2>1. User => LinkInv'
    BY Zenon, UserLinkSteps, SignOutStep, SubmitStep DEF User
  <2>2. Task => LinkInv'
    BY Zenon, HeardSteps, ParkStep, OnlineControlStep, WriteStep, ConnectedStep, ReadFrameStep DEF Task
  <2> QED
    BY Zenon, <2>1, <2>2, HandleEventStep, DialSteps, LinkLostStep, WriteLost DEF LinkNext
<1> QED
  BY <1>1, <1>2, PTL DEF LinkSpec

\* A typed message reaches the broker at most once, and its reply is asked for
\* at most once and only after that.
THEOREM RepliesFollow == LinkSpec => []ReplyFollowsItsMessage
<1>1. LinkInv => ReplyFollowsItsMessage
  <2>1. 0 <= 0 /\ 0 <= 1 /\ 1 <= 1
    BY SMT
  <2> SUFFICES ASSUME LinkInv, NEW m \in Msg PROVE generated[m] <= told[m] /\ told[m] <= 1
    BY Zenon DEF ReplyFollowsItsMessage
  <2>2. told[m] \in {0, 1} /\ generated[m] \in {0, 1} /\ (told[m] = 0 => generated[m] = 0)
    BY Zenon DEF LinkInv, MessageFits
  <2> QED
    BY SMT, <2>2
<1> QED
  BY <1>1, LinkInvariant, PTL

-----------------------------------------------------------------------------
(* The chat screen.                                                        *)

\* The conversation that is selected is asked for, or its answer on the way.
Awaited(asks, given, c) ==
  \/ Ask("get", c) \in asks
  \/ \E a \in given : a.op \in {"view", "missing"} /\ a.conv = c

\* What the screen shows is what is selected.
InStep(c, on, list) == on = c /\ \A m \in list : m.conv = c

\* A request and an answer are about conversations there may be.
AskFits(q) == q.op = "create" => q.conv \in Conv
AnswerFits(a) ==
  /\ a.op = "list" => a.data \subseteq Conv
  /\ a.op = "view" => \A m \in a.data : m.conv = a.conv

ChatFits ==
  /\ conversations \subseteq Conv /\ chats \subseteq Conv
  /\ \A q \in asked : AskFits(q)
  /\ \A a \in answers : AnswerFits(a)

\* Whenever screen and selection differ, an answer that brings them together is
\* to come.
ChatInv ==
  /\ ChatFits
  /\ ~refused => InStep(selected, shown, messages) \/ Awaited(asked, answers, selected)

\* A question more, or an answer more, and the conversation is still awaited.
LEMMA AwaitedGrows ==
  ASSUME NEW s, NEW g, NEW s2, NEW g2, NEW c, Awaited(s, g, c), s \subseteq s2, g \subseteq g2
  PROVE  Awaited(s2, g2, c)
BY Zenon DEF Awaited

\* Nor does an answer of another kind, or for another conversation, end the wait.
LEMMA AwaitedStays ==
  ASSUME NEW s, NEW g, NEW s2, NEW c, NEW a, Awaited(s, g, c), s \subseteq s2,
         a.op \notin {"view", "missing"} \/ a.conv # c
  PROVE  Awaited(s2, g \ {a}, c)
BY Zenon DEF Awaited

\* A step that leaves the screen alone and takes no question or answer back.
LEMMA ScreenKept ==
  ASSUME ChatInv, ChatFits', selected' = selected, shown' = shown, messages' = messages,
         ~refused' => ~refused, asked \subseteq asked', answers \subseteq answers'
  PROVE  ChatInv'
BY Zenon, AwaitedGrows DEF ChatInv, InStep

\* The questions the application asks of its own accord.
LEMMA AsksFit ==
  ASSUME NEW c
  PROVE  \A q \in Refresh \cup Reopen(c) : AskFits(q)
<1>1. \A o, d : (o = "create" => d \in Conv) => AskFits(Ask(o, d))
  BY Zenon DEF Ask, AskFits
<1>2. AskFits(Ask("list", NoChat)) /\ \A d : AskFits(Ask("get", d))
  BY Zenon, <1>1
<1> QED
  BY Zenon, <1>2 DEF Refresh, Reopen

\* open_conversation.
LEMMA SelectConversationStep ==
  ASSUME ChatInv, NEW c \in Conv, SelectConversation(c)
  PROVE  ChatInv'
<1>1. /\ selected' = c /\ asked' = asked \cup Reopen(c) /\ answers' = answers
      /\ conversations' = conversations /\ chats' = chats
  BY Zenon DEF SelectConversation, server
<1>2. c # NoChat
  BY Zenon, ChatAssumption
<1>3. Ask("get", c) \in asked'
  BY Zenon, <1>1, <1>2 DEF Reopen
<1>4. ChatFits'
  BY Zenon, <1>1, AsksFit DEF ChatInv, ChatFits
<1> QED
  BY Zenon, <1>1, <1>3, <1>4 DEF ChatInv, Awaited

\* A question the user asks without leaving the chat.
LEMMA OneQuestion ==
  ASSUME ChatInv, NEW o, NEW d, o = "create" => d \in Conv, asked' = asked \cup {Ask(o, d)},
         UNCHANGED <<selected, shown, messages, refused, answers, conversations, chats>>
  PROVE  ChatInv'
<1>1. AskFits(Ask(o, d))
  BY Zenon DEF Ask, AskFits
<1>2. ChatFits'
  BY Zenon, <1>1 DEF ChatInv, ChatFits
<1>3. asked \subseteq asked'
  BY Zenon
<1> QED
  BY Zenon, <1>2, <1>3, ScreenKept

\* DeleteConversation, CreateNewChat, DeleteMessage, SaveMessageEdit.
LEMMA UserSteps ==
  ASSUME ChatInv, NEW c \in Conv, NEW op \in {"remove", "edit"},
         DeleteConversation(c) \/ CreateNewChat(c) \/ ChangeMessage(op, c)
  PROVE  ChatInv'
<1>1. UNCHANGED <<selected, shown, messages, refused, answers, conversations, chats>>
  BY Zenon DEF DeleteConversation, CreateNewChat, ChangeMessage, screen, server, Step
<1>2. DeleteConversation(c) => asked' = asked \cup {Ask("delete", c)}
  BY Zenon DEF DeleteConversation
<1>3. ChangeMessage(op, c) => asked' = asked \cup {Ask(op, c)}
  BY Zenon DEF ChangeMessage
<1>4. CreateNewChat(c) => asked' \in {asked \cup {Ask("create", c)}, asked \cup {Ask("rename", form)}}
  BY Zenon DEF CreateNewChat
<1>5. "delete" # "create" /\ "rename" # "create" /\ op # "create"
  BY Zenon
<1> QED
  BY Zenon, <1>1, <1>2, <1>3, <1>4, <1>5, OneQuestion

\* The chat dialog and submit_message.
LEMMA DialogSteps ==
  ASSUME ChatInv, NEW f, NEW b, Dialog(f) \/ SubmitChat(b)
  PROVE  ChatInv'
<1>1. UNCHANGED <<selected, shown, messages, refused, answers, conversations, chats>>
  BY Zenon DEF Dialog, SubmitChat, screen, server, Step
<1>2. SubmitChat(b) => asked' \in {asked \cup {Ask("send", selected)}, asked \cup {Ask("generate", selected)}}
  BY Zenon DEF SubmitChat
<1>3. "send" # "create" /\ "generate" # "create"
  BY Zenon
<1>4. CASE Dialog(f)
  <2>1. asked' = asked
    BY Zenon, <1>4 DEF Dialog
  <2>2. ChatFits'
    BY Zenon, <1>1, <2>1 DEF ChatInv, ChatFits
  <2> QED
    BY Zenon, <1>1, <2>1, <2>2, ScreenKept
<1> QED
  BY Zenon, <1>1, <1>2, <1>3, <1>4, OneQuestion

\* The broker answers a question: whoever asked for a conversation hears of it.
LEMMA ServeKeeps ==
  ASSUME ChatInv, NEW q, Serve(q), NEW c, Awaited(asked, answers, c)
  PROVE  Awaited(asked', answers', c)
<1>1. asked' = asked \ {q} /\ answers \subseteq answers'
  BY Zenon DEF Serve
<1>2. CASE q = Ask("get", c)
  <2>1. q.op = "get" /\ q.conv = c
    BY Zenon, <1>2 DEF Ask
  <2>2. answers' = answers \cup
          {IF q.conv \in chats THEN [op |-> "view", conv |-> q.conv, data |-> Of(q.conv, stored)]
           ELSE [op |-> "missing", conv |-> q.conv, data |-> {}]}
    BY Zenon, <2>1 DEF Serve
  <2>3. \E a \in answers' : a.op \in {"view", "missing"} /\ a.conv = c
    <3> DEFINE v == [op |-> "view", conv |-> q.conv, data |-> Of(q.conv, stored)]
               n == [op |-> "missing", conv |-> q.conv, data |-> {}]
    <3>1. v.op = "view" /\ v.conv = q.conv /\ n.op = "missing" /\ n.conv = q.conv
      BY Zenon
    <3>2. v \in answers' \/ n \in answers'
      BY Zenon, <2>2
    <3> HIDE DEF v, n
    <3> QED
      BY Zenon, <2>1, <3>1, <3>2
  <2> QED
    BY Zenon, <2>3 DEF Awaited
<1>3. CASE q # Ask("get", c)
  BY Zenon, <1>1, <1>3 DEF Awaited
<1> QED
  BY Zenon, <1>2, <1>3

\* The answers the broker gives.
LEMMA AnswersFit ==
  /\ \A s : s \subseteq Conv => AnswerFits([op |-> "list", conv |-> NoChat, data |-> s])
  /\ \A c, s : AnswerFits([op |-> "view", conv |-> c, data |-> Of(c, s)])
  /\ \A c : AnswerFits([op |-> "missing", conv |-> c, data |-> {}])
  /\ AnswerFits([op |-> "accepted", conv |-> NoChat, data |-> {}])
  /\ \A c : AnswerFits([op |-> "error", conv |-> c, data |-> {}])
BY Zenon DEF AnswerFits, Of

\* dispatch, for the requests of the chat screen.
LEMMA ServeStep ==
  ASSUME ChatInv, NEW q \in asked, Serve(q)
  PROVE  ChatInv'
<1>1. /\ asked' = asked \ {q} /\ selected' = selected /\ shown' = shown /\ messages' = messages
      /\ refused' = refused /\ conversations' = conversations
  BY Zenon DEF Serve, screen
<1>2. chats' = chats \/ chats' = chats \ {q.conv} \/ (q.op = "create" /\ chats' = chats \cup {q.conv})
  BY Zenon DEF Serve, server
<1>3. chats' \subseteq Conv
  <2>1. chats \subseteq Conv /\ (q.op = "create" => q.conv \in Conv)
    BY Zenon DEF ChatInv, ChatFits, AskFits
  <2>2. CASE chats' = chats \/ chats' = chats \ {q.conv}
    BY Zenon, <2>1, <2>2
  <2>3. CASE q.op = "create" /\ chats' = chats \cup {q.conv}
    BY Zenon, <2>1, <2>3
  <2> QED
    BY Zenon, <1>2, <2>2, <2>3
<1>4. answers' = answers \/ \E a : answers' = answers \cup {a} /\ AnswerFits(a)
  <2>1. \/ answers' = answers \cup {[op |-> "list", conv |-> NoChat, data |-> chats]}
        \/ answers' = answers \cup {[op |-> "view", conv |-> q.conv, data |-> Of(q.conv, stored)]}
        \/ answers' = answers \cup {[op |-> "missing", conv |-> q.conv, data |-> {}]}
        \/ answers' = answers \cup {[op |-> "accepted", conv |-> NoChat, data |-> {}]}
        \/ answers' = answers \cup {[op |-> "error", conv |-> NoChat, data |-> {}]}
        \/ answers' = answers
    BY Zenon DEF Serve
  <2> QED
    BY Zenon, <2>1, AnswersFit DEF ChatInv, ChatFits
<1>5. ChatFits'
  BY Zenon, <1>1, <1>3, <1>4 DEF ChatInv, ChatFits
<1>6. Awaited(asked, answers, selected) => Awaited(asked', answers', selected)
  BY Zenon, ServeKeeps
<1> QED
  BY Zenon, <1>1, <1>5, <1>6 DEF ChatInv, InStep

\* A request fails.
LEMMA RefuseSteps ==
  ASSUME ChatInv, NEW q \in asked, Refuse(q) \/ RefuseGet(q)
  PROVE  ChatInv'
<1>1. /\ asked' = asked \ {q} /\ selected' = selected /\ shown' = shown /\ messages' = messages
      /\ conversations' = conversations /\ chats' = chats
      /\ answers' = answers \cup {[op |-> "error", conv |-> q.conv, data |-> {}]}
  BY Zenon DEF Refuse, RefuseGet, screen, server
<1>2. ChatFits'
  BY Zenon, <1>1, AnswersFit DEF ChatInv, ChatFits
<1>3. refused' \/ (refused' = refused /\ q.op # "get")
  BY Zenon DEF Refuse, RefuseGet, Step
<1>4. q.op # "get" => \A c : q # Ask("get", c)
  <2>1. \A c : Ask("get", c).op = "get"
    BY Zenon DEF Ask
  <2> QED
    BY Zenon, <2>1
<1>5. q.op # "get" /\ Awaited(asked, answers, selected) => Awaited(asked', answers', selected)
  BY Zenon, <1>1, <1>4 DEF Awaited
<1> QED
  BY Zenon, <1>1, <1>2, <1>3, <1>5 DEF ChatInv, InStep

\* Another session of the account.
LEMMA OtherSessionStep ==
  ASSUME ChatInv, OtherSession
  PROVE  ChatInv'
<1>1. /\ asked' = asked /\ answers' = answers /\ selected' = selected /\ shown' = shown
      /\ messages' = messages /\ conversations' = conversations /\ refused' = refused
  BY Zenon DEF OtherSession, screen, Step
<1>2. chats' \subseteq chats
  BY Zenon DEF OtherSession
<1>3. ChatFits'
  BY Zenon, <1>1, <1>2 DEF ChatInv, ChatFits
<1> QED
  BY Zenon, <1>1, <1>3, ScreenKept

\* Generations end with the open chat asked for again.
LEMMA GeneratingSteps ==
  ASSUME ChatInv, NEW g, NEW kept, ReplyStarts(g) \/ ReplyEnds(g, kept)
  PROVE  ChatInv'
<1>1. /\ answers' = answers /\ selected' = selected /\ shown' = shown /\ chats' = chats
      /\ messages' = messages /\ conversations' = conversations /\ refused' = refused
      /\ asked' = asked \/ asked' = asked \cup Reopen(selected)
  BY Zenon DEF ReplyStarts, ReplyEnds
<1>2. ChatFits'
  BY Zenon, <1>1, AsksFit DEF ChatInv, ChatFits
<1> QED
  BY Zenon, <1>1, <1>2, ScreenKept

\* An answer that is received leaves the broker and the other answers alone.
LEMMA ReceivedFits ==
  ASSUME ChatInv, NEW a, Received(a), \A q \in asked' : AskFits(q), conversations' \subseteq Conv
  PROVE  ChatFits' /\ answers' = answers \ {a} /\ refused' = refused /\ AnswerFits(a)
<1>1. answers' = answers \ {a} /\ refused' = refused /\ chats' = chats /\ a \in answers
  BY Zenon DEF Received, server
<1> QED
  BY Zenon, <1>1 DEF ChatInv, ChatFits

\* Conversations.
LEMMA ListStep ==
  ASSUME ChatInv, NEW a, ListReceived(a)
  PROVE  ChatInv'
<1> DEFINE keep == selected \in a.data
           first == IF a.data = {} THEN NoChat ELSE CHOOSE c \in a.data : TRUE
           pick == ~keep /\ auto_select
<1>1. /\ Received(a) /\ a.op = "list" /\ conversations' = a.data
      /\ keep => UNCHANGED <<selected, shown, messages>>
      /\ ~keep => /\ selected' = (IF pick THEN first ELSE NoChat)
                  /\ shown' = (IF selected = NoChat THEN shown ELSE NoChat)
                  /\ messages' = {}
      /\ asked' = asked \cup (IF pick THEN Reopen(first) ELSE {})
  BY Zenon DEF ListReceived
<1> HIDE DEF first
<1>2. \A q \in asked' : AskFits(q)
  BY Zenon, <1>1, AsksFit DEF ChatInv, ChatFits
<1>3. conversations' \subseteq Conv
  BY Zenon, <1>1 DEF Received, ChatInv, ChatFits, AnswerFits
<1>4. ChatFits' /\ answers' = answers \ {a} /\ refused' = refused
  BY Zenon, <1>1, <1>2, <1>3, ReceivedFits
<1>5. asked \subseteq asked'
  BY Zenon, <1>1
<1>6. Awaited(asked, answers, selected) => Awaited(asked', answers', selected)
  <2>1. a.op \notin {"view", "missing"}
    BY Zenon, <1>1
  <2> QED
    BY Zenon, <1>4, <1>5, <2>1, AwaitedStays
<1>7. CASE keep
  <2>1. selected' = selected /\ shown' = shown /\ messages' = messages
    BY Zenon, <1>1, <1>7
  <2> QED
    BY Zenon, <1>4, <1>6, <2>1 DEF ChatInv, InStep
<1>8. CASE ~keep /\ pick /\ first # NoChat
  <2>1. selected' = first /\ Ask("get", first) \in asked'
    BY Zenon, <1>1, <1>8 DEF Reopen
  <2> QED
    BY Zenon, <1>4, <2>1 DEF ChatInv, Awaited
<1>9. CASE ~keep /\ (~pick \/ first = NoChat)
  <2>1. selected' = NoChat /\ messages' = {} /\ shown' = (IF selected = NoChat THEN shown ELSE NoChat)
    BY Zenon, <1>1, <1>9
  <2>2. CASE selected # NoChat
    BY Zenon, <1>4, <2>1, <2>2 DEF ChatInv, InStep
  <2>3. CASE selected = NoChat
    <3>1. selected' = selected /\ shown' = shown
      BY Zenon, <2>1, <2>3
    <3> QED
      BY Zenon, <1>4, <1>6, <2>1, <3>1 DEF ChatInv, InStep
  <2> QED
    BY Zenon, <2>2, <2>3
<1> QED
  BY Zenon, <1>7, <1>8, <1>9

\* ConversationView.
LEMMA ViewStep ==
  ASSUME ChatInv, NEW a, ViewReceived(a)
  PROVE  ChatInv'
<1>1. /\ Received(a) /\ a.op = "view" /\ conversations' = conversations /\ asked' = asked
      /\ selected' = a.conv /\ shown' = a.conv /\ messages' = a.data
  BY Zenon DEF ViewReceived, ViewSelected
<1>2. ChatFits' /\ AnswerFits(a)
  BY Zenon, <1>1, ReceivedFits DEF ChatInv, ChatFits
<1> QED
  BY Zenon, <1>1, <1>2 DEF ChatInv, InStep, AnswerFits

\* ConversationNotFound.
LEMMA MissingStep ==
  ASSUME ChatInv, NEW a, MissingReceived(a)
  PROVE  ChatInv'
<1>1. /\ Received(a) /\ a.op = "missing" /\ conversations' = conversations
      /\ asked' = asked \/ asked' = asked \cup Refresh
      /\ selected = a.conv => selected' = NoChat /\ shown' = NoChat /\ messages' = {}
      /\ selected # a.conv => UNCHANGED <<selected, shown, messages>>
  BY Zenon DEF MissingReceived, Close
<1>2. \A q \in asked' : AskFits(q)
  BY Zenon, <1>1, AsksFit DEF ChatInv, ChatFits
<1>3. ChatFits' /\ answers' = answers \ {a} /\ refused' = refused
  BY Zenon, <1>1, <1>2, ReceivedFits DEF ChatInv, ChatFits
<1>4. CASE selected = a.conv
  BY Zenon, <1>1, <1>3, <1>4 DEF ChatInv, InStep
<1>5. CASE selected # a.conv
  <2>1. asked \subseteq asked'
    BY Zenon, <1>1
  <2>2. Awaited(asked, answers, selected) => Awaited(asked', answers', selected)
    BY Zenon, <1>3, <1>5, <2>1, AwaitedStays
  <2>3. selected' = selected /\ shown' = shown /\ messages' = messages
    BY Zenon, <1>1, <1>5
  <2> QED
    BY Zenon, <1>3, <2>2, <2>3 DEF ChatInv, InStep
<1> QED
  BY Zenon, <1>4, <1>5

\* Accepted, SyncComplete and an error frame.
LEMMA PlainAnswerSteps ==
  ASSUME ChatInv, NEW a, AcceptedReceived(a) \/ ErrorReceived(a)
  PROVE  ChatInv'
<1>1. /\ Received(a) /\ a.op \in {"accepted", "error"} /\ conversations' = conversations
      /\ asked' = asked \/ asked' = asked \cup Refresh \cup Reopen(selected)
      /\ selected' = selected /\ shown' = shown /\ messages' = messages
  BY Zenon DEF AcceptedReceived, ErrorReceived
<1>2. \A q \in asked' : AskFits(q)
  BY Zenon, <1>1, AsksFit DEF ChatInv, ChatFits
<1>3. ChatFits' /\ answers' = answers \ {a} /\ refused' = refused
  BY Zenon, <1>1, <1>2, ReceivedFits DEF ChatInv, ChatFits
<1>4. asked \subseteq asked' /\ a.op \notin {"view", "missing"}
  BY Zenon, <1>1
<1>5. Awaited(asked, answers, selected) => Awaited(asked', answers', selected)
  BY Zenon, <1>3, <1>4, AwaitedStays
<1> QED
  BY Zenon, <1>1, <1>3, <1>5 DEF ChatInv, InStep

\* apply_delta.
LEMMA ShownDeltaStep ==
  ASSUME ChatInv, DeltaReceived
  PROVE  ChatInv'
<1>1. /\ asked' = asked /\ answers' = answers /\ selected' = selected /\ shown' = shown
      /\ conversations' = conversations /\ refused' = refused /\ chats' = chats
      /\ \A m \in messages' : m \in messages \/ m.conv = selected
  BY Zenon DEF DeltaReceived, server
<1>2. ChatFits'
  BY Zenon, <1>1 DEF ChatInv, ChatFits
<1> QED
  BY Zenon, <1>1, <1>2 DEF ChatInv, InStep

\* A step of something else.
LEMMA ChatStutter ==
  ASSUME ChatInv, UNCHANGED chatVars
  PROVE  ChatInv'
<1>1. /\ asked' = asked /\ answers' = answers /\ selected' = selected /\ shown' = shown
      /\ conversations' = conversations /\ refused' = refused /\ chats' = chats /\ messages' = messages
  BY Zenon DEF chatVars, screen, server
<1>2. ChatFits'
  BY Zenon, <1>1 DEF ChatInv, ChatFits
<1> QED
  BY Zenon, <1>1, <1>2, ScreenKept

\* However many conversations, messages, replies and other sessions there are,
\* and in whatever order answers, deltas and deletions arrive, a screen that
\* differs from the selection has an answer to come that mends it.
THEOREM ChatInvariant == ChatSpec => []ChatInv
<1>1. ChatInit(Refresh) => ChatInv
  <2> SUFFICES ASSUME ChatInit(Refresh) PROVE ChatInv
    OBVIOUS
  <2>1. /\ asked = Refresh /\ answers = {} /\ conversations = {} /\ messages = {}
        /\ selected = NoChat /\ shown = NoChat /\ chats \in {{}, Conv}
    BY Zenon DEF ChatInit
  <2>2. ChatFits
    BY Zenon, <2>1, AsksFit DEF ChatFits
  <2> QED
    BY Zenon, <2>1, <2>2 DEF ChatInv, InStep
<1>2. ChatInv /\ [ChatNext]_chatVars => ChatInv'
  <2> SUFFICES ASSUME ChatInv, ChatNext PROVE ChatInv'
    BY Zenon, ChatStutter
  <2>1. ChatUser => ChatInv'
    BY Zenon, SelectConversationStep, UserSteps, DialogSteps DEF ChatUser
  <2>2. FrameReceived => ChatInv'
    BY Zenon, ListStep, ViewStep, MissingStep, PlainAnswerSteps, ShownDeltaStep DEF FrameReceived
  <2> QED
    BY Zenon, <2>1, <2>2, GeneratingSteps, ServeStep, RefuseSteps, OtherSessionStep DEF ChatNext, Generating, Served
<1> QED
  BY <1>1, <1>2, PTL DEF ChatSpec

\* What is typed goes to the chat on the screen.
THEOREM WhatIsShownIsSelected == ChatSpec => []ShownIsSelected
<1>1. ChatInv => ShownIsSelected
  BY Zenon DEF ChatInv, InStep, Awaited, ShownIsSelected
<1> QED
  BY <1>1, ChatInvariant, PTL

-----------------------------------------------------------------------------
(* The conversation.                                                       *)

\* The user's words reach the broker once and in the chat they were typed
\* into, and a reply is asked for only after them: the connection and the chat
\* screen keep this together (network.rs, app/events.rs).
THEOREM ConversationsStayOrdered == ConversationSpec => []ConversationIsOrdered
<1>1. ReplyFollowsItsMessage /\ ShownIsSelected => ConversationIsOrdered
  BY DEF ConversationIsOrdered
<1> QED
  BY <1>1, RepliesFollow, WhatIsShownIsSelected, PTL DEF ConversationSpec

-----------------------------------------------------------------------------
(* Plugins: what host and guests agree on.                                 *)

\* A plan as a record.
PlanRow(p) ==
  \E r, s, b, l, y : p = [requests |-> r, response |-> s, stream |-> b, limit |-> l, types |-> y]

\* A reply to every request of plan p, each of them good.
GoodReplies(p) == [i \in DOMAIN p.requests |-> "good"]

\* Plugin m can read the replies to its plan p, or open its stream.
Decodes(m, p) ==
  /\ p.stream => p.types # {} /\ 1 \in DOMAIN p.requests
  /\ ~p.stream => GuestDecode(m, p.response, GoodReplies(p)) # "error"

\* What plugin m plans for operation op passes the host's test, and m can read
\* the replies.
Serves(m, p, op, timeout) == PlanRow(p) /\ (p # Unsupported => Fits(p, AllowedFor(op, timeout)) /\ Decodes(m, p))

\* The fields of a call.
CallRow(k) == DOMAIN k = {"at", "module", "op", "plan", "bodies", "why"}

\* The replies to a call under way can be read once they are there and good.
Answerable(k) ==
  /\ DOMAIN k.bodies = DOMAIN k.plan.requests
  /\ IF k.module \in DOMAIN Bundled THEN Decodes(k.module, k.plan)
     ELSE ~k.plan.stream /\ k.plan.response # "error"

AllGood(k) == \A i \in DOMAIN k.bodies : k.bodies[i] = "good"

CallFits(k) ==
  /\ CallRow(k)
  /\ k.why = "refused" => k.module \notin DOMAIN Bundled
  /\ k.why = "decode" /\ AllGood(k) => k.at = "ok"
  /\ k.at \in {"idle", "made", "sent"} => k.why = ""
  /\ k.at = "sent" => Answerable(k)

CacheFits ==
  /\ \E a, b : chosen = [id |-> a, module |-> b]
  /\ chosen.module # NoPlugin => chosen.module = chosen.id /\ chosen.module \notin {"hugging-face", "chatty-metal"}

PluginsInv == CacheFits /\ DOMAIN call = CallerOf /\ (\A c \in CallerOf : CallFits(call[c]))

-----------------------------------------------------------------------------
(* Plugins: plans.                                                         *)

\* The parts of a plan as NewPlan makes it.
LEMMA PlanParts ==
  ASSUME NEW r, NEW s
  PROVE  /\ PlanRow(NewPlan(r, s)) /\ NewPlan(r, s).requests = r /\ NewPlan(r, s).response = s
         /\ NewPlan(r, s).stream = FALSE /\ NewPlan(r, s).limit = MaxMessage
BY Zenon DEF NewPlan, PlanRow

\* The parts of a plan whose reply is streamed.
LEMMA StreamParts ==
  ASSUME NEW r, NEW s, NEW y
  PROVE  /\ PlanRow(StreamPlan(r, s, y)) /\ StreamPlan(r, s, y).requests = r /\ StreamPlan(r, s, y).response = s
         /\ StreamPlan(r, s, y).stream = TRUE /\ StreamPlan(r, s, y).limit = MaxMessage
         /\ StreamPlan(r, s, y).types = y
BY Zenon DEF StreamPlan, PlanRow

\* The list rs has n requests, all of them q.
Alike(rs, q, n) == DOMAIN rs = 1..n /\ Len(rs) = n /\ \A i \in 1..n : rs[i] = q

\* The lists of requests the guests build: one, two or three alike.
LEMMA Counts ==
  ASSUME NEW q
  PROVE  Alike(<<q>>, q, 1) /\ Alike(<<q, q>>, q, 2) /\ Alike(<<q, q, q>>, q, 3)
BY SMT DEF Alike

\* Requests fresh with get and post go to the configured endpoint.
LEMMA Methods ==
  ASSUME NEW t
  PROVE  /\ GetOf(t).own /\ GetOf(t).method \in {"get"}
         /\ PostOf(t).own /\ PostOf(t).method \in {"post"} /\ PostOf(t).method \in {"post", "delete"}
BY Zenon DEF GetOf, PostOf

\* The limits the plans ask for are within the host's.
LEMMA Limits == MaxMessage \in 1..MaxMessage /\ SearchLimit \in 1..MaxMessage
BY SMT DEF MaxMessage, SearchLimit

\* A plan passes where its result and its requests are allowed, without a
\* stream and with one.
LEMMA NewPasses ==
  ASSUME NEW rs, NEW r, NEW q, q.own, NEW n \in 1..4, Alike(rs, q, n),
         NEW t, NEW s, NEW m \in 1..4, NEW l, n <= m, q.method \in s
  PROVE  Fits(NewPlan(rs, r), Allows(r, FALSE, t, s, m, l))
BY Zenon, Limits DEF NewPlan, Allows, Fits, ValidPlan, Alike

\* The same for a plan with a stream.
LEMMA StreamPasses ==
  ASSUME NEW rs, NEW r, NEW y, NEW q, q.own, NEW n \in 1..4, Alike(rs, q, n),
         NEW t, NEW s, NEW m \in 1..4, NEW l, n <= m, q.method \in s
  PROVE  Fits(StreamPlan(rs, r, y), Allows(r, TRUE, t, s, m, l))
BY Zenon, Limits DEF StreamPlan, Allows, Fits, ValidPlan, Alike

\* AllowedFor, operation by operation.
LEMMA AllowedTable ==
  ASSUME NEW t
  PROVE  /\ AllowedFor("Models", t) = Allows("Models", FALSE, t, {"get"}, 4, MaxMessage)
         /\ \E l : AllowedFor("Complete", t) = Allows("Completion", FALSE, l, {"post"}, 1, MaxMessage)
         /\ AllowedFor("Stream", t) = Allows("Completion", TRUE, t, {"post"}, 1, MaxMessage)
         /\ AllowedFor("State", t) = Allows("State", FALSE, TwentySeconds, {"get"}, 4, MaxMessage)
         /\ AllowedFor("Pull", t) = Allows("Action", TRUE, SixHours, {"post"}, 1, MaxMessage)
         /\ \A op \in ModelActions :
              AllowedFor(op, t) = Allows("Action", FALSE, SixHours, {"post", "delete"}, 1, MaxMessage)
         /\ AllowedFor("Search", t) = Allows("Search", FALSE, TwentySeconds, {"get"}, 1, SearchLimit)
         /\ AllowedFor("Image", t) = Allows("Image", FALSE, t, {"post"}, 1, MaxMessage)
         /\ AllowedFor("ImageStatus", t) = Allows("Image", FALSE, TwentySeconds, {"get"}, 1, MaxMessage)
         /\ AllowedFor("ImageUnload", t) = Allows("Action", FALSE, TwentySeconds, {"post"}, 1, MaxMessage)
         /\ AllowedFor("ImageCancel", t) = Allows("Action", FALSE, TenSeconds, {"post", "delete"}, 2, MaxMessage)
BY Zenon DEF AllowedFor, ModelActions

\* The plans the guests make pass, operation by operation.
LEMMA PlansFit ==
  ASSUME NEW t, NEW u, NEW y
  PROVE  /\ Fits(NewPlan(<<GetOf(u)>>, "Models"), AllowedFor("Models", t))
         /\ Fits(NewPlan(<<GetOf(u), GetOf(u)>>, "Models"), AllowedFor("Models", t))
         /\ Fits(NewPlan(<<PostOf(u)>>, "Completion"), AllowedFor("Complete", t))
         /\ Fits(StreamPlan(<<PostOf(u)>>, "Completion", y), AllowedFor("Stream", t))
         /\ Fits(NewPlan(<<GetOf(u)>>, "State"), AllowedFor("State", t))
         /\ Fits(NewPlan(<<GetOf(u), GetOf(u), GetOf(u)>>, "State"), AllowedFor("State", t))
         /\ Fits(StreamPlan(<<PostOf(u)>>, "Action", y), AllowedFor("Pull", t))
         /\ Fits(NewPlan(<<PostOf(u)>>, "Image"), AllowedFor("Image", t))
         /\ Fits(NewPlan(<<GetOf(u)>>, "Image"), AllowedFor("ImageStatus", t))
         /\ Fits(NewPlan(<<PostOf(u), PostOf(u)>>, "Action"), AllowedFor("ImageCancel", t))
         /\ Fits(NewPlan(<<PostOf(u)>>, "Action"), AllowedFor("ImageUnload", t))
<1>1. /\ 1 \in 1..4 /\ 2 \in 1..4 /\ 3 \in 1..4 /\ 4 \in 1..4
      /\ 1 <= 1 /\ 1 <= 4 /\ 2 <= 2 /\ 2 <= 4 /\ 3 <= 4
  BY SMT
<1>2. Fits(NewPlan(<<GetOf(u)>>, "Models"), AllowedFor("Models", t))
  <2>1. \A l : Fits(NewPlan(<<GetOf(u)>>, "Models"), Allows("Models", FALSE, l, {"get"}, 4, MaxMessage))
    BY Zenon, <1>1, Methods, Counts, NewPasses
  <2> QED
    BY Zenon, <2>1, AllowedTable
<1>3. Fits(NewPlan(<<GetOf(u), GetOf(u)>>, "Models"), AllowedFor("Models", t))
  <2>1. \A l : Fits(NewPlan(<<GetOf(u), GetOf(u)>>, "Models"), Allows("Models", FALSE, l, {"get"}, 4, MaxMessage))
    BY Zenon, <1>1, Methods, Counts, NewPasses
  <2> QED
    BY Zenon, <2>1, AllowedTable
<1>4. Fits(NewPlan(<<PostOf(u)>>, "Completion"), AllowedFor("Complete", t))
  <2>1. \A l : Fits(NewPlan(<<PostOf(u)>>, "Completion"), Allows("Completion", FALSE, l, {"post"}, 1, MaxMessage))
    BY Zenon, <1>1, Methods, Counts, NewPasses
  <2> QED
    BY Zenon, <2>1, AllowedTable
<1>5. Fits(StreamPlan(<<PostOf(u)>>, "Completion", y), AllowedFor("Stream", t))
  <2>1. \A l : Fits(StreamPlan(<<PostOf(u)>>, "Completion", y), Allows("Completion", TRUE, l, {"post"}, 1, MaxMessage))
    BY Zenon, <1>1, Methods, Counts, StreamPasses
  <2> QED
    BY Zenon, <2>1, AllowedTable
<1>6. Fits(NewPlan(<<GetOf(u)>>, "State"), AllowedFor("State", t))
  <2>1. \A l : Fits(NewPlan(<<GetOf(u)>>, "State"), Allows("State", FALSE, l, {"get"}, 4, MaxMessage))
    BY Zenon, <1>1, Methods, Counts, NewPasses
  <2> QED
    BY Zenon, <2>1, AllowedTable
<1>7. Fits(NewPlan(<<GetOf(u), GetOf(u), GetOf(u)>>, "State"), AllowedFor("State", t))
  <2>1. \A l : Fits(NewPlan(<<GetOf(u), GetOf(u), GetOf(u)>>, "State"), Allows("State", FALSE, l, {"get"}, 4, MaxMessage))
    BY Zenon, <1>1, Methods, Counts, NewPasses
  <2> QED
    BY Zenon, <2>1, AllowedTable
<1>8. Fits(StreamPlan(<<PostOf(u)>>, "Action", y), AllowedFor("Pull", t))
  <2>1. \A l : Fits(StreamPlan(<<PostOf(u)>>, "Action", y), Allows("Action", TRUE, l, {"post"}, 1, MaxMessage))
    BY Zenon, <1>1, Methods, Counts, StreamPasses
  <2> QED
    BY Zenon, <2>1, AllowedTable
<1>9. Fits(NewPlan(<<PostOf(u)>>, "Image"), AllowedFor("Image", t))
  <2>1. \A l : Fits(NewPlan(<<PostOf(u)>>, "Image"), Allows("Image", FALSE, l, {"post"}, 1, MaxMessage))
    BY Zenon, <1>1, Methods, Counts, NewPasses
  <2> QED
    BY Zenon, <2>1, AllowedTable
<1>10. Fits(NewPlan(<<GetOf(u)>>, "Image"), AllowedFor("ImageStatus", t))
  <2>1. \A l : Fits(NewPlan(<<GetOf(u)>>, "Image"), Allows("Image", FALSE, l, {"get"}, 1, MaxMessage))
    BY Zenon, <1>1, Methods, Counts, NewPasses
  <2> QED
    BY Zenon, <2>1, AllowedTable
<1>11. Fits(NewPlan(<<PostOf(u), PostOf(u)>>, "Action"), AllowedFor("ImageCancel", t))
  <2>1. \A l : Fits(NewPlan(<<PostOf(u), PostOf(u)>>, "Action"), Allows("Action", FALSE, l, {"post", "delete"}, 2, MaxMessage))
    BY Zenon, <1>1, Methods, Counts, NewPasses
  <2> QED
    BY Zenon, <2>1, AllowedTable
<1>12. Fits(NewPlan(<<PostOf(u)>>, "Action"), AllowedFor("ImageUnload", t))
  <2>1. \A l : Fits(NewPlan(<<PostOf(u)>>, "Action"), Allows("Action", FALSE, l, {"post"}, 1, MaxMessage))
    BY Zenon, <1>1, Methods, Counts, NewPasses
  <2> QED
    BY Zenon, <2>1, AllowedTable
<1> QED
  BY Zenon, <1>2, <1>3, <1>4, <1>5, <1>6, <1>7, <1>8, <1>9, <1>10, <1>11, <1>12

\* So do those for a model, whichever method they use.
LEMMA ActionsFit ==
  ASSUME NEW t, NEW op \in ModelActions, NEW q, q.own, q.method \in {"post", "delete"}
  PROVE  Fits(NewPlan(<<q>>, "Action"), AllowedFor(op, t))
<1>1. 1 \in 1..4 /\ 1 <= 1
  BY SMT
<1>2. Fits(NewPlan(<<q>>, "Action"), Allows("Action", FALSE, SixHours, {"post", "delete"}, 1, MaxMessage))
  BY Zenon, <1>1, Counts, NewPasses
<1> QED
  BY Zenon, <1>2, AllowedTable

\* And the catalogue's search, with its smaller limit.
LEMMA SearchFits ==
  ASSUME NEW t
  PROVE  PlanRow(HuggingFacePlan("Search")) /\ Fits(HuggingFacePlan("Search"), AllowedFor("Search", t))
<1>1. 1 \in 1..4 /\ 1 <= 1
  BY SMT
<1>2. Fits(HuggingFacePlan("Search"), Allows("Search", FALSE, TwentySeconds, {"get"}, 1, SearchLimit))
  <2>1. /\ HuggingFacePlan("Search").requests = <<GetOf(TwentySeconds)>>
        /\ HuggingFacePlan("Search").response = "Search" /\ HuggingFacePlan("Search").stream = FALSE
        /\ HuggingFacePlan("Search").limit = SearchLimit
    BY Zenon DEF HuggingFacePlan, NewPlan
  <2>2. Alike(<<GetOf(TwentySeconds)>>, GetOf(TwentySeconds), 1)
    BY Zenon, Counts
  <2>3. GetOf(TwentySeconds).own /\ GetOf(TwentySeconds).method \in {"get"}
    BY Zenon, Methods
  <2> QED
    BY Zenon, <1>1, <2>1, <2>2, <2>3, Limits DEF Allows, Fits, ValidPlan, Alike
<1>3. PlanRow(HuggingFacePlan("Search"))
  BY Zenon DEF HuggingFacePlan, NewPlan, PlanRow
<1> QED
  BY Zenon, <1>2, <1>3, AllowedTable

\* With as many good replies as requests, a guest finds what it looks for.
LEMMA Replies ==
  ASSUME NEW p, NEW q, NEW n \in 1..4, Alike(p.requests, q, n)
  PROVE  /\ GoodReplies(p)[1] = "good" /\ Len(GoodReplies(p)) = n
         /\ \A i \in DOMAIN GoodReplies(p) : GoodReplies(p)[i] = "good"
<1>1. GoodReplies(p) = [i \in 1..n |-> "good"]
  BY Zenon DEF GoodReplies, Alike
<1>2. 1 \in 1..n /\ n \in Nat
  BY SMT
<1>3. \A k \in Nat : Len([i \in 1..k |-> "good"]) = k
  BY SMT
<1> QED
  BY Zenon, <1>1, <1>2, <1>3

\* Plugin m can read n good replies as a result of kind r.
Reads(m, r, n) ==
  \A b : b[1] = "good" /\ Len(b) = n /\ (\A i \in DOMAIN b : b[i] = "good") => GuestDecode(m, r, b) # "error"

\* A plan the host accepts and whose replies its guest can read serves.
LEMMA NewServes ==
  ASSUME NEW m, NEW rs, NEW r, NEW q, NEW n \in 1..4, Alike(rs, q, n), NEW op, NEW t,
         Fits(NewPlan(rs, r), AllowedFor(op, t)), Reads(m, r, n)
  PROVE  Serves(m, NewPlan(rs, r), op, t)
<1> DEFINE p == NewPlan(rs, r)
<1>1. p.requests = rs /\ p.response = r /\ p.stream = FALSE /\ PlanRow(p)
  BY Zenon DEF NewPlan, PlanRow
<1>2. Alike(p.requests, q, n)
  BY Zenon, <1>1
<1>3. GuestDecode(m, r, GoodReplies(p)) # "error"
  <2> HIDE DEF p
  <2> QED
    BY Zenon, <1>2, Replies DEF Reads
<1>4. Decodes(m, p)
  <2> HIDE DEF p
  <2> QED
    BY Zenon, <1>1, <1>3 DEF Decodes
<1> QED
  BY Zenon, <1>1, <1>4 DEF Serves

\* A streamed plan that passes is served: the host reads the stream itself.
LEMMA StreamServes ==
  ASSUME NEW m, NEW q, NEW r, NEW y, y # {}, NEW op, NEW t, Fits(StreamPlan(<<q>>, r, y), AllowedFor(op, t))
  PROVE  Serves(m, StreamPlan(<<q>>, r, y), op, t)
<1>0. 1 \in DOMAIN <<q>>
  BY SMT
<1>1. Decodes(m, StreamPlan(<<q>>, r, y)) /\ PlanRow(StreamPlan(<<q>>, r, y))
  BY Zenon, <1>0 DEF StreamPlan, Decodes, PlanRow
<1> QED
  BY Zenon, <1>1 DEF Serves

\* A refusal to plan is for the guest to make.
LEMMA RefusalServes ==
  ASSUME NEW m, NEW op, NEW t
  PROVE  Serves(m, Unsupported, op, t)
BY Zenon, PlanParts DEF Serves, Unsupported

\* What the guests read: openai-compatible, freetoken, ollama, comfyui and
\* hugging-face.
LEMMA OpenAiReads ==
  ASSUME NEW m \in {"openai-compatible", "freetoken"}
  PROVE  Reads(m, "Models", 1) /\ Reads(m, "Completion", 1)
BY Zenon DEF Reads, GuestDecode, FreeTokenDecode, OpenAiDecode

\* freetoken's guest reads the state of its server.
LEMMA FreeTokenReads == Reads("freetoken", "State", 1)
BY Zenon DEF Reads, GuestDecode, FreeTokenDecode

\* ollama's guest reads the replies to its plans.
LEMMA OllamaReads ==
  /\ Reads("ollama", "Models", 1) /\ Reads("ollama", "Completion", 1) /\ Reads("ollama", "State", 3)
  /\ Reads("ollama", "Action", 1)
BY Zenon DEF Reads, GuestDecode, OllamaDecode

\* comfyui's guest reads the replies to its plans.
LEMMA ComfyReads ==
  /\ Reads("comfyui", "Models", 2) /\ Reads("comfyui", "Image", 1) /\ Reads("comfyui", "Action", 1)
  /\ Reads("comfyui", "Action", 2)
BY Zenon DEF Reads, GuestDecode, ComfyDecode

\* hugging-face's guest reads the one reply to a search.
LEMMA SearchReads == Reads("hugging-face", "Search", 1)
BY Zenon DEF Reads, GuestDecode

\* The numbers of requests in the plans.
LEMMA Small == 1 \in 1..4 /\ 2 \in 1..4 /\ 3 \in 1..4
BY SMT

\* What the OpenAI-compatible guest plans; freetoken's guest hands on to it.
LEMMA OpenAiServes ==
  ASSUME NEW op, NEW t, NEW m \in {"openai-compatible", "freetoken"}
  PROVE  Serves(m, OpenAiPlan(op, t), op, t)
<1>1. Serves(m, NewPlan(<<GetOf(t)>>, "Models"), "Models", t)
  <2>1. Fits(NewPlan(<<GetOf(t)>>, "Models"), AllowedFor("Models", t))
    BY Zenon, PlansFit
  <2> QED
    BY Zenon, <2>1, Small, Counts, OpenAiReads, NewServes
<1>2. Serves(m, NewPlan(<<PostOf(t)>>, "Completion"), "Complete", t)
  <2>1. Fits(NewPlan(<<PostOf(t)>>, "Completion"), AllowedFor("Complete", t))
    BY Zenon, PlansFit
  <2> QED
    BY Zenon, <2>1, Small, Counts, OpenAiReads, NewServes
<1>3. Serves(m, StreamPlan(<<PostOf(t)>>, "Completion", {"sse"}), "Stream", t)
  <2>1. Fits(StreamPlan(<<PostOf(t)>>, "Completion", {"sse"}), AllowedFor("Stream", t))
    BY Zenon, PlansFit
  <2> QED
    BY Zenon, <2>1, StreamServes
<1> QED
  BY Zenon, <1>1, <1>2, <1>3, RefusalServes DEF OpenAiPlan, ChatPlan

\* What freetoken's guest plans.
LEMMA FreeTokenServes ==
  ASSUME NEW op, NEW t
  PROVE  Serves("freetoken", FreeTokenPlan(op, t), op, t)
<1>1. Serves("freetoken", NewPlan(<<GetOf(TwentySeconds)>>, "State"), "State", t)
  <2>1. Fits(NewPlan(<<GetOf(TwentySeconds)>>, "State"), AllowedFor("State", t))
    BY Zenon, PlansFit
  <2> QED
    BY Zenon, <2>1, Small, Counts, FreeTokenReads, NewServes
<1> QED
  BY Zenon, <1>1, OpenAiServes, RefusalServes DEF FreeTokenPlan

\* What ollama's guest plans.
LEMMA OllamaServes ==
  ASSUME NEW op, NEW t
  PROVE  Serves("ollama", OllamaPlan(op, t), op, t)
<1> DEFINE m == "ollama"
           S == GetOf(TwentySeconds)
<1>1. Serves(m, NewPlan(<<GetOf(t)>>, "Models"), "Models", t)
  <2>1. Fits(NewPlan(<<GetOf(t)>>, "Models"), AllowedFor("Models", t))
    BY Zenon, PlansFit
  <2> QED
    BY Zenon, <2>1, Small, Counts, OllamaReads, NewServes
<1>2. Serves(m, NewPlan(<<PostOf(t)>>, "Completion"), "Complete", t)
  <2>1. Fits(NewPlan(<<PostOf(t)>>, "Completion"), AllowedFor("Complete", t))
    BY Zenon, PlansFit
  <2> QED
    BY Zenon, <2>1, Small, Counts, OllamaReads, NewServes
<1>3. Serves(m, StreamPlan(<<PostOf(t)>>, "Completion", NdJson), "Stream", t)
  <2>1. Fits(StreamPlan(<<PostOf(t)>>, "Completion", NdJson), AllowedFor("Stream", t))
    BY Zenon, PlansFit
  <2> QED
    BY Zenon, <2>1, StreamServes DEF NdJson
<1>4. Serves(m, StreamPlan(<<PostOf(SixHours)>>, "Action", NdJson), "Pull", t)
  <2>1. Fits(StreamPlan(<<PostOf(SixHours)>>, "Action", NdJson), AllowedFor("Pull", t))
    BY Zenon, PlansFit
  <2> QED
    BY Zenon, <2>1, StreamServes DEF NdJson
<1>5. Serves(m, NewPlan(<<S, S, S>>, "State"), "State", t)
  <2>1. Fits(NewPlan(<<S, S, S>>, "State"), AllowedFor("State", t))
    BY Zenon, PlansFit
  <2>2. Alike(<<S, S, S>>, S, 3)
    BY Zenon, Counts
  <2> QED
    BY Zenon, <2>1, <2>2, Small, OllamaReads, NewServes
<1>6. \A way \in {"post", "delete"}, o \in ModelActions :
        Serves(m, NewPlan(<<[PostOf(SixHours) EXCEPT !.method = way]>>, "Action"), o, t)
  <2> TAKE way \in {"post", "delete"}, o \in ModelActions
  <2> DEFINE q == [PostOf(SixHours) EXCEPT !.method = way]
  <2>1. q.own /\ q.method = way
    BY Zenon DEF PostOf
  <2> HIDE DEF q
  <2>2. Fits(NewPlan(<<q>>, "Action"), AllowedFor(o, t))
    BY Zenon, <2>1, ActionsFit
  <2>3. Serves(m, NewPlan(<<q>>, "Action"), o, t)
    BY Zenon, <2>2, Small, Counts, OllamaReads, NewServes
  <2> QED
    BY Zenon, <2>3 DEF q
<1>7. op \in ModelActions =>
        Serves(m, NewPlan(<<[PostOf(SixHours) EXCEPT !.method = IF op = "Delete" THEN "delete" ELSE "post"]>>, "Action"),
               op, t)
  BY Zenon, <1>6
<1> QED
  BY Zenon, <1>1, <1>2, <1>3, <1>4, <1>5, <1>7, RefusalServes DEF OllamaPlan, ChatPlan

\* What comfyui's guest plans.
LEMMA ComfyServes ==
  ASSUME NEW op, NEW t
  PROVE  Serves("comfyui", ComfyPlan(op, t), op, t)
<1> DEFINE m == "comfyui"
<1>1. Serves(m, NewPlan(<<GetOf(t), GetOf(t)>>, "Models"), "Models", t)
  <2>1. Fits(NewPlan(<<GetOf(t), GetOf(t)>>, "Models"), AllowedFor("Models", t))
    BY Zenon, PlansFit
  <2>2. Alike(<<GetOf(t), GetOf(t)>>, GetOf(t), 2)
    BY Zenon, Counts
  <2> QED
    BY Zenon, <2>1, <2>2, Small, ComfyReads, NewServes
<1>2. \A u : Serves(m, NewPlan(<<PostOf(u)>>, "Image"), "Image", t)
  <2> TAKE u
  <2>1. Fits(NewPlan(<<PostOf(u)>>, "Image"), AllowedFor("Image", t))
    BY Zenon, PlansFit
  <2> QED
    BY Zenon, <2>1, Small, Counts, ComfyReads, NewServes
<1>3. Serves(m, NewPlan(<<GetOf(TwentySeconds)>>, "Image"), "ImageStatus", t)
  <2>1. Fits(NewPlan(<<GetOf(TwentySeconds)>>, "Image"), AllowedFor("ImageStatus", t))
    BY Zenon, PlansFit
  <2> QED
    BY Zenon, <2>1, Small, Counts, ComfyReads, NewServes
<1>4. Serves(m, NewPlan(<<PostOf(TenSeconds), PostOf(TenSeconds)>>, "Action"), "ImageCancel", t)
  <2>1. Fits(NewPlan(<<PostOf(TenSeconds), PostOf(TenSeconds)>>, "Action"), AllowedFor("ImageCancel", t))
    BY Zenon, PlansFit
  <2>2. Alike(<<PostOf(TenSeconds), PostOf(TenSeconds)>>, PostOf(TenSeconds), 2)
    BY Zenon, Counts
  <2> QED
    BY Zenon, <2>1, <2>2, Small, ComfyReads, NewServes
<1>5. Serves(m, NewPlan(<<PostOf(TwentySeconds)>>, "Action"), "ImageUnload", t)
  <2>1. Fits(NewPlan(<<PostOf(TwentySeconds)>>, "Action"), AllowedFor("ImageUnload", t))
    BY Zenon, PlansFit
  <2> QED
    BY Zenon, <2>1, Small, Counts, ComfyReads, NewServes
<1> QED
  BY Zenon, <1>1, <1>2, <1>3, <1>4, <1>5, RefusalServes DEF ComfyPlan

\* What hugging-face's guest plans.
LEMMA SearchServes ==
  ASSUME NEW op, NEW t
  PROVE  Serves("hugging-face", HuggingFacePlan(op), op, t)
<1>1. Serves("hugging-face", HuggingFacePlan("Search"), "Search", t)
  <2> DEFINE p == HuggingFacePlan("Search")
  <2>1. /\ p.requests = <<GetOf(TwentySeconds)>> /\ p.response = "Search" /\ p.stream = FALSE
    BY Zenon DEF HuggingFacePlan, NewPlan
  <2>2. PlanRow(p) /\ Fits(p, AllowedFor("Search", t))
    BY Zenon, SearchFits
  <2> HIDE DEF p
  <2>3. Alike(p.requests, GetOf(TwentySeconds), 1)
    BY Zenon, <2>1, Counts
  <2>4. GuestDecode("hugging-face", "Search", GoodReplies(p)) # "error"
    BY Zenon, <2>3, Small, Replies, SearchReads DEF Reads
  <2>5. Decodes("hugging-face", p)
    BY Zenon, <2>1, <2>4 DEF Decodes
  <2> QED
    BY Zenon, <2>2, <2>5 DEF Serves, p
<1> QED
  BY Zenon, <1>1, RefusalServes DEF HuggingFacePlan

\* Whatever a bundled guest plans, the host accepts and the guest can read the
\* replies to (WasmAdapter::prepare against the adapter crates).
LEMMA GuestServes ==
  ASSUME NEW m \in DOMAIN Bundled, NEW op, NEW t
  PROVE  Serves(m, GuestPlan(m, op, t), op, t)
BY Zenon, OpenAiServes, FreeTokenServes, OllamaServes, ComfyServes, SearchServes, RefusalServes DEF GuestPlan

-----------------------------------------------------------------------------
(* Plugins: calls.                                                         *)

\* The plan the host runs asks what the guest's plan asks.
LEMMA ClampKeeps ==
  ASSUME NEW p, PlanRow(p), NEW a
  PROVE  /\ Clamped(p, a).stream = p.stream /\ Clamped(p, a).response = p.response
         /\ Clamped(p, a).types = p.types /\ DOMAIN Clamped(p, a).requests = DOMAIN p.requests
<1> PICK r, s, b, l, y : p = [requests |-> r, response |-> s, stream |-> b, limit |-> l, types |-> y]
  BY Zenon DEF PlanRow
<1> QED
  BY Zenon DEF Clamped

\* So the guest can read the replies to it as to its own plan.
LEMMA ClampDecodes ==
  ASSUME NEW p, PlanRow(p), NEW a, NEW m, Decodes(m, p)
  PROVE  Decodes(m, Clamped(p, a))
<1>1. GoodReplies(Clamped(p, a)) = GoodReplies(p)
  BY Zenon, ClampKeeps DEF GoodReplies
<1>2. /\ Clamped(p, a).stream = p.stream /\ Clamped(p, a).response = p.response
      /\ Clamped(p, a).types = p.types /\ DOMAIN Clamped(p, a).requests = DOMAIN p.requests
  BY Zenon, ClampKeeps
<1> QED
  BY SMT, <1>1, <1>2 DEF Decodes

\* A step of one caller leaves the other calls alone.
LEMMA OneCall ==
  ASSUME PluginsInv, NEW c \in CallerOf, NEW k, CallFits(k), call' = [call EXCEPT ![c] = k], CacheFits'
  PROVE  PluginsInv'
<1>1. DOMAIN call' = CallerOf
  BY Zenon DEF PluginsInv
<1>2. \A d \in CallerOf : CallFits(call'[d])
  BY Zenon DEF PluginsInv
<1> QED
  BY Zenon, <1>1, <1>2 DEF PluginsInv, CallFits, CallRow, Answerable, AllGood

\* A call that has not begun, and one that failed before its replies were read.
LEMMA NoCallFits == CallFits(NoCall)
<1>1. CallRow(NoCall)
  BY Zenon DEF CallRow, NoCall
<1> QED
  BY Zenon, <1>1 DEF CallFits, NoCall

\* A call that failed before a plan was checked fits.
LEMMA FailedFits ==
  ASSUME NEW why \in {"load", "credential", "guest", "http", "timeout"}
  PROVE  CallFits(Failed(why))
<1>1. CallRow(NoCall)
  BY Zenon DEF CallRow, NoCall
<1>2. CallRow(Failed(why)) /\ Failed(why).at = "failed" /\ Failed(why).why = why
  BY Zenon, <1>1 DEF CallRow, Failed
<1> QED
  BY Zenon, <1>2 DEF CallFits

\* A call whose plan the host refused fits, if the plugin was uploaded.
LEMMA RefusedFits ==
  ASSUME NEW m, m \notin DOMAIN Bundled
  PROVE  CallFits([Failed("refused") EXCEPT !.module = m])
<1> DEFINE k == [Failed("refused") EXCEPT !.module = m]
<1>1. CallRow(NoCall)
  BY Zenon DEF CallRow, NoCall
<1>2. CallRow(Failed("refused")) /\ Failed("refused").at = "failed" /\ Failed("refused").why = "refused"
  BY Zenon, <1>1 DEF CallRow, Failed
<1>3. CallRow(k) /\ k.at = "failed" /\ k.why = "refused" /\ k.module = m
  BY Zenon, <1>2 DEF CallRow
<1> QED
  BY Zenon, <1>3 DEF CallFits

\* Registry::select.
LEMMA SelectStep ==
  ASSUME PluginsInv, NEW id, Select(id)
  PROVE  PluginsInv'
<1>1. CacheFits'
  BY Zenon DEF PluginsInv, CacheFits, Select
<1>2. call' = call
  BY Zenon DEF Select
<1> QED
  BY Zenon, <1>1, <1>2 DEF PluginsInv

\* make_adapter.
LEMMA MakeStep ==
  ASSUME PluginsInv, NEW c \in CallerOf, NEW name, NEW retain, MakeAdapter(c, name, retain)
  PROVE  PluginsInv'
<1> DEFINE id == Canonical(name)
           cached == retain /\ id # "hugging-face" /\ chosen.id = id
           fresh == [NoCall EXCEPT !.at = "made", !.module = id]
           held == [fresh EXCEPT !.module = chosen.module]
<1>1. CallFits(fresh) /\ CallFits(held)
  <2>1. CallRow(NoCall) /\ NoCall.why = ""
    BY Zenon DEF CallRow, NoCall
  <2>2. CallRow(fresh) /\ fresh.at = "made" /\ fresh.why = ""
    BY Zenon, <2>1 DEF CallRow
  <2>3. CallRow(held) /\ held.at = "made" /\ held.why = ""
    BY Zenon, <2>2 DEF CallRow
  <2> HIDE DEF fresh, held
  <2> QED
    BY Zenon, <2>2, <2>3 DEF CallFits
<1>2. CallFits(Failed("load"))
  BY Zenon, FailedFits
<1>3. CacheFits
  BY Zenon DEF PluginsInv
<1>4. /\ \/ call' = [call EXCEPT ![c] = fresh] \/ call' = [call EXCEPT ![c] = held]
         \/ call' = [call EXCEPT ![c] = Failed("load")]
      /\ chosen' = chosen \/ (cached /\ id # "chatty-metal" /\ chosen' = [chosen EXCEPT !.module = id])
  BY Zenon DEF MakeAdapter
<1>5. CacheFits'
  <2> HIDE DEF id
  <2> QED
    BY Zenon, <1>3, <1>4 DEF CacheFits
<1> HIDE DEF fresh, held
<1> QED
  BY Zenon, <1>1, <1>2, <1>4, <1>5, OneCall

\* WasmProvider's pinned credential.
LEMMA CredentialStep ==
  ASSUME PluginsInv, NEW c \in CallerOf, CredentialRefused(c)
  PROVE  PluginsInv'
<1>1. CallFits(Failed("credential"))
  BY Zenon, FailedFits
<1>2. CacheFits'
  BY Zenon DEF PluginsInv, CacheFits, CredentialRefused
<1> QED
  BY Zenon, <1>1, <1>2, OneCall DEF CredentialRefused

\* The appliance's own client.
LEMMA ApplianceStep ==
  ASSUME PluginsInv, NEW c \in CallerOf, NEW op, CallAppliance(c, op)
  PROVE  PluginsInv'
<1>1. PICK r \in NativeResult(op) :
        call' = [call EXCEPT ![c] = [call[c] EXCEPT !.at = r, !.op = op, !.why = "native"]]
  BY Zenon DEF CallAppliance
<1> DEFINE k == [call[c] EXCEPT !.at = r, !.op = op, !.why = "native"]
<1>2. CallRow(call[c])
  BY Zenon DEF PluginsInv, CallFits
<1>3. CallRow(k) /\ k.at = r /\ k.why = "native"
  BY Zenon, <1>2 DEF CallRow
<1>4. r \notin {"idle", "made", "sent"}
  BY Zenon DEF NativeResult
<1>5. CacheFits'
  BY Zenon DEF PluginsInv, CacheFits, CallAppliance
<1> HIDE DEF k
<1>6. CallFits(k)
  BY Zenon, <1>3, <1>4 DEF CallFits
<1>7. call' = [call EXCEPT ![c] = k]
  BY Zenon, <1>1 DEF k
<1> QED
  BY Zenon, <1>5, <1>6, <1>7, OneCall

\* ReplyFails, ReplyTimesOut and CallReturns end a call.
LEMMA EndSteps ==
  ASSUME PluginsInv, NEW c \in CallerOf, NEW i, ReplyFails(c, i) \/ ReplyTimesOut(c, i) \/ CallReturns(c)
  PROVE  PluginsInv'
<1>1. CallFits(Failed("http")) /\ CallFits(Failed("timeout")) /\ CallFits(NoCall)
  BY Zenon, FailedFits, NoCallFits
<1>2. CacheFits'
  BY Zenon DEF PluginsInv, CacheFits, ReplyFails, ReplyTimesOut, CallReturns
<1> QED
  BY Zenon, <1>1, <1>2, OneCall DEF ReplyFails, ReplyTimesOut, CallReturns

\* A plan that was accepted can be answered: by a bundled guest's own reading,
\* or, for another author's, because none of its results is an error.
LEMMA SentAnswerable ==
  ASSUME NEW m, NEW op, NEW t, NEW p \in PlansOf(m, op, t), p # Unsupported
  PROVE  /\ PlanRow(p)
         /\ m \in DOMAIN Bundled => Fits(p, AllowedFor(op, t)) /\ Decodes(m, p)
         /\ m \notin DOMAIN Bundled => p.stream = FALSE /\ p.response # "error"
<1>1. CASE m \in DOMAIN Bundled
  <2>1. p = GuestPlan(m, op, t)
    BY Zenon, <1>1 DEF PlansOf
  <2> QED
    BY Zenon, <1>1, <2>1, GuestServes DEF Serves
<1>2. CASE m \notin DOMAIN Bundled
  <2>1. \/ p = NewPlan(<<GetOf(0)>>, "Models") \/ p = NewPlan(<<PostOf(0)>>, "Action")
        \/ p = NewPlan(<<[PostOf(t) EXCEPT !.own = FALSE]>>, "Completion")
    BY Zenon, <1>2 DEF PlansOf
  <2>2. "Models" # "error" /\ "Action" # "error" /\ "Completion" # "error"
    BY Zenon
  <2>3. \E rs, r : p = NewPlan(rs, r) /\ r # "error"
    BY Zenon, <2>1, <2>2
  <2>4. PICK rs, r : p = NewPlan(rs, r) /\ r # "error"
    BY Zenon, <2>3
  <2>5. PlanRow(p) /\ p.stream = FALSE /\ p.response = r
    BY Zenon, <2>4 DEF NewPlan, PlanRow
  <2> QED
    BY Zenon, <1>2, <2>4, <2>5
<1> QED
  BY Zenon, <1>1, <1>2

\* prepare: the guest plans, the host tests the plan.
LEMMA PrepareStep ==
  ASSUME PluginsInv, NEW c \in CallerOf, NEW op, NEW t, Prepare(c, op, t)
  PROVE  PluginsInv'
<1> DEFINE m == call[c].module
           a == AllowedFor(op, t)
<1>1. PICK p \in PlansOf(m, op, t) :
        call' = [call EXCEPT ![c] =
                   IF p = Unsupported THEN Failed("guest")
                   ELSE IF ~Fits(p, a) THEN [Failed("refused") EXCEPT !.module = m]
                   ELSE [call[c] EXCEPT !.at = "sent", !.op = op, !.plan = Clamped(p, a),
                                        !.bodies = [i \in DOMAIN p.requests |-> ""]]]
  BY Zenon DEF Prepare
<1> DEFINE k == [call[c] EXCEPT !.at = "sent", !.op = op, !.plan = Clamped(p, a),
                                !.bodies = [i \in DOMAIN p.requests |-> ""]]
<1>2. CacheFits'
  BY Zenon DEF PluginsInv, CacheFits, Prepare
<1>3. CallFits(call[c]) /\ call[c].at = "made"
  BY Zenon DEF PluginsInv, Prepare
<1>4. CASE p = Unsupported
  <2>1. CallFits(Failed("guest"))
    BY Zenon, FailedFits
  <2>2. call' = [call EXCEPT ![c] = Failed("guest")]
    BY Zenon, <1>1, <1>4
  <2> QED
    BY Zenon, <1>2, <2>1, <2>2, OneCall
<1>5. CASE p # Unsupported /\ ~Fits(p, a)
  <2>1. m \notin DOMAIN Bundled
    BY Zenon, <1>5, SentAnswerable
  <2> DEFINE f == [Failed("refused") EXCEPT !.module = m]
  <2>2. CallFits(f)
    BY Zenon, <2>1, RefusedFits
  <2>3. call' = [call EXCEPT ![c] = f]
    BY Zenon, <1>1, <1>5
  <2> HIDE DEF f
  <2> QED
    BY Zenon, <1>2, <2>2, <2>3, OneCall
<1>6. CASE p # Unsupported /\ Fits(p, a)
  <2>1. /\ PlanRow(p)
        /\ m \in DOMAIN Bundled => Decodes(m, p)
        /\ m \notin DOMAIN Bundled => p.stream = FALSE /\ p.response # "error"
    BY Zenon, <1>6, SentAnswerable
  <2>2. /\ CallRow(k) /\ k.at = "sent" /\ k.module = m /\ k.plan = Clamped(p, a)
        /\ k.bodies = [i \in DOMAIN p.requests |-> ""] /\ k.why = call[c].why
    BY Zenon, <1>3 DEF CallFits, CallRow
  <2>3. call[c].why = ""
    BY Zenon, <1>3 DEF CallFits
  <2>4. call' = [call EXCEPT ![c] = k]
    BY Zenon, <1>1, <1>6
  <2> HIDE DEF k, m, a
  <2>5. m \in DOMAIN Bundled => Decodes(m, Clamped(p, a))
    BY Zenon, <2>1, ClampDecodes
  <2>6. m \notin DOMAIN Bundled => ~Clamped(p, a).stream /\ Clamped(p, a).response # "error"
    <3>1. Clamped(p, a).stream = p.stream /\ Clamped(p, a).response = p.response
      BY Zenon, <2>1, ClampKeeps
    <3> QED
      BY SMT, <2>1, <3>1
  <2>7. DOMAIN k.bodies = DOMAIN k.plan.requests
    <3>1. DOMAIN k.bodies = DOMAIN p.requests
      BY Zenon, <2>2
    <3>2. DOMAIN Clamped(p, a).requests = DOMAIN p.requests
      BY Zenon, <2>1, ClampKeeps
    <3> QED
      BY Zenon, <2>2, <3>1, <3>2
  <2>8. Answerable(k)
    BY Zenon, <2>2, <2>5, <2>6, <2>7 DEF Answerable
  <2>9. CallFits(k)
    <3>1. k.why = "" /\ k.why # "refused" /\ k.why # "decode"
      BY Zenon, <2>2, <2>3
    <3> QED
      BY Zenon, <3>1, <2>2, <2>8 DEF CallFits
  <2> QED
    BY Zenon, <1>2, <2>4, <2>9, OneCall
<1> QED
  BY Zenon, <1>4, <1>5, <1>6

\* Good replies to an answerable call make it succeed.
LEMMA GoodResult ==
  ASSUME NEW k, Answerable(k), AllGood(k), NEW i \in DOMAIN k.bodies
  PROVE  Result(k) = "ok"
<1>1. CASE k.plan.stream
  <2>1. k.module \in DOMAIN Bundled /\ Decodes(k.module, k.plan)
    BY Zenon, <1>1 DEF Answerable
  <2>2. 1 \in DOMAIN k.bodies /\ k.plan.types # {}
    BY Zenon, <1>1, <2>1 DEF Decodes, Answerable
  <2> QED
    BY Zenon, <1>1, <2>2 DEF Result, StreamResult, AllGood
<1>2. CASE ~k.plan.stream
  <2> DEFINE bs == [j \in DOMAIN k.bodies |-> IF k.plan.response = "Action" THEN "good" ELSE k.bodies[j]]
  <2>1. bs = [j \in DOMAIN k.bodies |-> "good"]
    BY Zenon DEF AllGood
  <2>2. bs = GoodReplies(k.plan)
    BY Zenon, <2>1 DEF GoodReplies, Answerable
  <2>3. k.module \in DOMAIN Bundled => GuestDecode(k.module, k.plan.response, bs) # "error"
    <3> HIDE DEF bs
    <3> QED
      BY Zenon, <1>2, <2>2 DEF Answerable, Decodes
  <2>4. k.module \notin DOMAIN Bundled => k.plan.response # "error"
    BY Zenon DEF Answerable
  <2> QED
    BY Zenon, <1>2, <2>3, <2>4 DEF Result
<1> QED
  BY Zenon, <1>1, <1>2

\* What decoding comes to is success or failure.
LEMMA Results ==
  ASSUME NEW k
  PROVE  Result(k) \in {"ok", "failed"}
BY Zenon DEF Result, StreamResult

\* A reply, and the guest's decoding after the last.
LEMMA ReplyStep ==
  ASSUME PluginsInv, NEW c \in CallerOf, NEW i \in DOMAIN call[c].bodies, NEW body, Reply(c, i, body)
  PROVE  PluginsInv'
<1> DEFINE k == [call[c] EXCEPT !.bodies[i] = body]
           d == [k EXCEPT !.at = Result(k), !.why = "decode"]
<1>1. CacheFits'
  BY Zenon DEF PluginsInv, CacheFits, Reply
<1>2. call' = [call EXCEPT ![c] = k] \/ call' = [call EXCEPT ![c] = d]
  BY Zenon DEF Reply
<1>3. CallFits(call[c]) /\ call[c].at = "sent"
  BY Zenon DEF PluginsInv, Reply
<1>4. /\ CallRow(k) /\ k.at = "sent" /\ k.why = call[c].why /\ k.module = call[c].module
      /\ k.plan = call[c].plan /\ k.bodies = [call[c].bodies EXCEPT ![i] = body]
  BY Zenon, <1>3 DEF CallFits, CallRow
<1>5. DOMAIN k.bodies = DOMAIN call[c].bodies
  BY Zenon, <1>4
<1>6. /\ CallRow(d) /\ d.at = Result(k) /\ d.why = "decode" /\ d.bodies = k.bodies
  <2> HIDE DEF k
  <2> QED
    BY Zenon, <1>4 DEF CallRow
<1> HIDE DEF k, d
<1>7. Answerable(k)
  <2>1. Answerable(call[c])
    BY Zenon, <1>3 DEF CallFits
  <2> QED
    BY SMT, <1>4, <1>5, <2>1 DEF Answerable
<1>8. CallFits(k)
  <2>1. k.why = "" /\ k.why # "refused" /\ k.why # "decode"
    BY Zenon, <1>3, <1>4 DEF CallFits
  <2> QED
    BY Zenon, <1>4, <1>7, <2>1 DEF CallFits
<1>9. CallFits(d)
  <2>1. AllGood(d) => d.at = "ok"
    <3>1. AllGood(d) => AllGood(k)
      BY Zenon, <1>6 DEF AllGood
    <3> QED
      BY Zenon, <1>5, <1>6, <1>7, <3>1, GoodResult
  <2>2. d.at \notin {"idle", "made", "sent"}
    BY Zenon, <1>6, Results
  <2> QED
    BY Zenon, <1>6, <2>1, <2>2 DEF CallFits
<1> QED
  BY Zenon, <1>1, <1>2, <1>8, <1>9, OneCall

\* A step that changes nothing.
LEMMA PluginsStutter ==
  ASSUME PluginsInv, UNCHANGED callVars
  PROVE  PluginsInv'
BY Zenon DEF PluginsInv, CacheFits, callVars

\* The registry and the calls keep the inductive invariant.
THEOREM PluginsInvariant == CallSpec => []PluginsInv
<1>1. CallInit => PluginsInv
  <2> SUFFICES ASSUME CallInit PROVE PluginsInv
    OBVIOUS
  <2>1. CacheFits
    BY Zenon DEF CallInit, CacheFits
  <2> QED
    BY Zenon, <2>1, NoCallFits DEF CallInit, PluginsInv
<1>2. PluginsInv /\ [CallNext]_callVars => PluginsInv'
  <2> SUFFICES ASSUME PluginsInv, CallNext PROVE PluginsInv'
    BY Zenon, PluginsStutter
  <2> QED
    BY Zenon, SelectStep, MakeStep, CredentialStep, ApplianceStep, PrepareStep, ReplyStep, EndSteps DEF CallNext
<1> QED
  BY <1>1, <1>2, PTL DEF CallSpec

\* For every adapter directory, every number of callers and every time limit:
\* the cache holds the selected plugin's module only, the host refuses no plan
\* of a bundled guest, and good replies never make a call of one fail.
THEOREM HostAndGuestsAgree == CallSpec => []PluginsAgree
<1>1. PluginsInv => PluginsAgree
  BY Zenon DEF PluginsInv, PluginsAgree, CacheFits, CallFits, AllGood
<1> QED
  BY <1>1, PluginsInvariant, PTL
=============================================================================
