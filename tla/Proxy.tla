-------------------------------- MODULE Proxy --------------------------------
(***************************************************************************)
(* The MCP proxy: one client's messages, read, judged, forwarded, scanned    *)
(* and answered one after the other, and a server that runs on its own.      *)
(*                                                                          *)
(*   read -> judge -> forward -> await -> scan -> write -> read             *)
(*                                                                          *)
(* A server behind a subprocess has two pipes and may say what it was not    *)
(* asked for; one behind HTTP answers every request on its own connection.   *)
(* What the Interceptor decides is Admission's matter: here any verdict is   *)
(* possible.                                                                *)
(***************************************************************************)
EXTENDS Naturals, Sequences

CONSTANTS
  MaxMessages,  \* bound: messages of the client
  MaxSpoken     \* bound: messages the server was not asked for

ASSUME ProxyBounds == MaxMessages \in Nat \ {0} /\ MaxSpoken \in Nat

Messages == 1 .. MaxMessages
Refusing == {"DENY", "TERMINATE", "unreadable"}
Verdicts == Refusing \cup {"ALLOW", "MUTATE", "HUMAN_REVIEW"}
Bodies == {"result", "dirty", "clean", "notice", "empty", "error"}

VARIABLES
  link,      \* the client's messages, the kind of server, whether anyone can be asked
  proxy,     \* messages read, and where the last one is
  verdict,   \* of each message, what Intercept said
  toServer, fromServer,
  server,    \* whether it runs, and how often it spoke without being asked
  ran,       \* tool calls the server ran, as they reached it
  answers    \* what the client was answered, in the order of its messages

proxyVars == <<link, proxy, verdict, toServer, fromServer, server, ran, answers>>

Subprocess == link.upstream = "subprocess"
Kind == link.messages[proxy.read]
Reply(i, body) == [of |-> i, body |-> body]

ProxyStep(from, to) ==
  /\ proxy.at = from
  /\ proxy' = to
  /\ UNCHANGED <<link, server, ran>>

\* A failed step of handle, and what it answers.
Answered(reply) == [proxy EXCEPT !.at = "write", !.reply = reply]
Failed == Answered(Reply(proxy.read, "error"))

-----------------------------------------------------------------------------
(* Proxy.Run *)

ReadRequest ==
  /\ proxy.read < Len(link.messages)
  /\ ProxyStep("read",
       [proxy EXCEPT !.read = @ + 1, !.params = "asked",
          !.at = IF link.messages[proxy.read + 1] = "tool" THEN "judge" ELSE "forward"])
  /\ UNCHANGED <<verdict, toServer, fromServer, answers>>

\* The client is gone: the subprocess is killed.
Close ==
  /\ proxy.at = "read" /\ proxy.read = Len(link.messages)
  /\ proxy' = [proxy EXCEPT !.at = "closed"]
  /\ server' = [server EXCEPT !.up = FALSE]
  /\ toServer' = <<>>
  /\ UNCHANGED <<link, verdict, fromServer, ran, answers>>

\* Mutant of Intercept: what was changed is reported, and the original goes on.
InterceptUnchanged ==
  \E v \in Verdicts :
    /\ v = "HUMAN_REVIEW" => ~link.dispatcher
    /\ ProxyStep("judge", IF v \in Refusing THEN Failed ELSE [proxy EXCEPT !.at = "forward"])
    /\ verdict' = [verdict EXCEPT ![proxy.read] = v]
    /\ UNCHANGED <<toServer, fromServer, answers>>

\* A refused call is answered, a changed one goes on as changed, and all others go
\* on - with a dispatcher Intercept waits for a person and never says HUMAN_REVIEW;
\* without one a call that is to be held goes on as well.
Intercept ==
  \E v \in Verdicts :
    /\ v = "HUMAN_REVIEW" => ~link.dispatcher
    /\ ProxyStep("judge",
         IF v \in Refusing THEN Failed
         ELSE [proxy EXCEPT !.at = "forward",
                            !.params = IF v = "MUTATE" THEN "mutated" ELSE @])
    /\ verdict' = [verdict EXCEPT ![proxy.read] = v]
    /\ UNCHANGED <<toServer, fromServer, answers>>

\* The first half of Forward: writing fails when nobody reads.
Send ==
  /\ IF server.up
     THEN /\ ProxyStep("forward", [proxy EXCEPT !.at = "await"])
          /\ toServer' = Append(toServer, [of |-> proxy.read, kind |-> Kind,
                                           params |-> proxy.params])
     ELSE /\ ProxyStep("forward", Failed)
          /\ UNCHANGED toServer
  /\ UNCHANGED <<verdict, fromServer, answers>>

\* An answer carries the ID of what was asked, whatever it was an answer to; that of
\* a tool call is scanned.
Correlated(reply) ==
  [proxy EXCEPT !.at = IF Kind = "tool" THEN "scan" ELSE "write", !.reply = reply]

\* Mutant of Decode: whoever has waited too long gives up.
DecodeOrGiveUp ==
  /\ Subprocess
  /\ \/ /\ fromServer # <<>>
        /\ ProxyStep("await", Correlated(Head(fromServer)))
        /\ fromServer' = Tail(fromServer)
     \/ /\ fromServer = <<>>
        /\ ProxyStep("await", Failed)
        /\ UNCHANGED fromServer
  /\ UNCHANGED <<verdict, toServer, answers>>

\* A subprocess: the next message it wrote, or the end of its output.
Decode ==
  /\ Subprocess
  /\ \/ /\ fromServer # <<>>
        /\ ProxyStep("await", Correlated(Head(fromServer)))
        /\ fromServer' = Tail(fromServer)
     \/ /\ fromServer = <<>> /\ ~server.up
        /\ ProxyStep("await", Failed)
        /\ UNCHANGED fromServer
  /\ UNCHANGED <<verdict, toServer, answers>>

\* HTTP: the answer on this connection, unless it is empty or 30 s have passed.
Received ==
  /\ ~Subprocess
  /\ \/ \E k \in DOMAIN fromServer :
          /\ fromServer[k].of = proxy.read
          /\ ProxyStep("await", IF fromServer[k].body = "empty" THEN Failed
                                ELSE Correlated(fromServer[k]))
     \/ ProxyStep("await", Failed)
  /\ fromServer' = <<>>
  /\ UNCHANGED <<verdict, toServer, answers>>

\* scanOutput: an output that does not pass is refused, or replaced by what is left
\* of it.  What has no text content is passed on.
ScanOutput ==
  /\ \E body \in IF proxy.reply.body = "dirty" THEN {"error", "clean"}
                 ELSE {proxy.reply.body} :
       ProxyStep("scan", Answered([proxy.reply EXCEPT !.body = body]))
  /\ UNCHANGED <<verdict, toServer, fromServer, answers>>

WriteResponse ==
  /\ ProxyStep("write", [proxy EXCEPT !.at = "read"])
  /\ answers' = Append(answers, proxy.reply)
  /\ UNCHANGED <<verdict, toServer, fromServer>>

-----------------------------------------------------------------------------
(* The server *)

Outcomes(kind) ==
  CASE kind = "tool" -> {"result", "dirty", "error"}
    [] kind = "other" -> {"result"}
    [] kind = "notice" -> {"empty"}

\* A notification has no answer; over HTTP that is an empty one.
Serve ==
  /\ server.up /\ toServer # <<>>
  /\ LET asked == Head(toServer)
     IN  /\ ran' = IF asked.kind = "tool" THEN Append(ran, asked) ELSE ran
         /\ \E body \in Outcomes(asked.kind) :
              fromServer' = IF Subprocess /\ body = "empty" THEN fromServer
                            ELSE Append(fromServer, Reply(asked.of, body))
  /\ toServer' = Tail(toServer)
  /\ UNCHANGED <<link, proxy, verdict, server, answers>>

\* A subprocess logs, reports progress, or asks the client something.
Speak ==
  /\ Subprocess /\ server.up /\ server.spoken < MaxSpoken
  /\ server' = [server EXCEPT !.spoken = @ + 1]
  /\ fromServer' = Append(fromServer, Reply(0, "notice"))
  /\ UNCHANGED <<link, proxy, verdict, toServer, ran, answers>>

\* What it wrote before can still be read.
Die ==
  /\ server.up
  /\ server' = [server EXCEPT !.up = FALSE]
  /\ toServer' = <<>>
  /\ UNCHANGED <<link, proxy, verdict, fromServer, ran, answers>>

-----------------------------------------------------------------------------
ProxyStart ==
  /\ proxy = [at |-> "read", read |-> 0, params |-> "asked", reply |-> Reply(0, "empty")]
  /\ verdict = [i \in Messages |-> "none"]
  /\ toServer = <<>> /\ fromServer = <<>>
  /\ server = [up |-> TRUE, spoken |-> 0]
  /\ ran = <<>> /\ answers = <<>>

ProxyInit ==
  /\ ProxyStart
  /\ \E n \in Messages, upstream \in {"subprocess", "http"}, dispatcher \in BOOLEAN :
       \E messages \in [1 .. n -> {"tool", "other", "notice"}] :
         link = [messages |-> messages, upstream |-> upstream, dispatcher |-> dispatcher]

ProxyRun ==
  \/ ReadRequest \/ Intercept \/ Send \/ Decode \/ Received
  \/ ScanOutput \/ WriteResponse \/ Close

ProxyNext == ProxyRun \/ Serve \/ Speak \/ Die

ProxySpec == ProxyInit /\ [][ProxyNext]_proxyVars

-----------------------------------------------------------------------------
(* Properties *)

\* Every variable stays within its type, and everything read is answered, once and in
\* turn: there is an answer for each message but the one in work.
ProxyTypeOK ==
  /\ proxy.at \in {"read", "judge", "forward", "await", "scan", "write", "closed"}
  /\ proxy.reply \in [of : 0 .. MaxMessages, body : Bodies]
  /\ verdict \in [Messages -> Verdicts \cup {"none"}]
  /\ server \in [up : BOOLEAN, spoken : 0 .. MaxSpoken]
  /\ Len(answers) = IF proxy.at \in {"read", "closed"} THEN proxy.read ELSE proxy.read - 1

\* The server runs a tool call at most once, only after it was judged and never after
\* it was refused, and with the parameters it was judged to have.
NothingUnjudgedRuns ==
  \A k \in DOMAIN ran :
    LET i == ran[k].of
    IN  /\ verdict[i] \in Verdicts \ Refusing
        /\ verdict[i] = "MUTATE" <=> ran[k].params = "mutated"
        /\ \A j \in DOMAIN ran : ran[j].of = i => j = k

\* Everybody gets the answer to what he asked, errors and timeouts in between
\* notwithstanding, as long as the server only speaks when it is asked; and so no
\* output that would not pass the scan reaches the client.  If it does speak, such an
\* output still never answers a tool call.
AnswersAreTheirOwn ==
  \A i \in DOMAIN answers :
    /\ server.spoken = 0 => answers[i].of = i
    /\ answers[i].body = "dirty" => link.messages[i] # "tool" /\ server.spoken > 0

\* Whoever waits for the server waits for something that is on its way - unless a
\* notification, to which no answer comes, went to a subprocess before.
NobodyWaitsForNothing ==
  proxy.at = "await" =>
    \/ ~Subprocess \/ ~server.up \/ toServer # <<>> \/ fromServer # <<>>
    \/ \E i \in 1 .. proxy.read : link.messages[i] = "notice"

\* Every client gets its own answers and gets them all.
ClientsAreServed == AnswersAreTheirOwn /\ NobodyWaitsForNothing
=============================================================================
