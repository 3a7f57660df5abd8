----------------------------- MODULE Gateway -----------------------------
(* The request path of the proxy: RequestID -> Audit -> Auth -> Policy ->  *)
(* Proxy, as main.run chains them.  Every layer hands the next the same    *)
(* request and response writer, so the layers meet in what they do to the  *)
(* body stream, to the response header map and to the request context.     *)
(* What token verification answers is left open here (see TokenGate); the  *)
(* policy engine decides by default.rego or fails; upstream is external.   *)
EXTENDS Naturals, Sequences, FiniteSets

CONSTANTS Requests,  \* the requests served
          Shapes,    \* what a request may look like, a subset of AllShapes
          Clients,   \* OAuth2 clients
          Tools,     \* tool names
          NoTool,    \* the name in the params of a call that has none
          Wildcard,  \* "*" in the grants
          Grants,    \* data.gateway.permissions: clients to sets of tool names
          NoClient, NoShape,
          Answers,   \* the statuses upstream answers with, a subset of Statuses
          MaxEvents  \* bound: what upstream sends on one event stream

\* What jsonrpc.Parse makes of a body: a call, nothing at all ("none", an empty
\* body), or no JSON-RPC request ("garbage").
Texts == [method : {"tools/call"}, tool : Tools \cup {NoTool}]
            \cup [method : {"handshake", "other", "none", "garbage"}, tool : {NoTool}]

Calls == {t \in Texts : t.method \notin {"none", "garbage"}}

\* How much of a body there is to read: all of it, the first megabyte of a
\* longer one ("limit"), or what came before it broke off ("broken": a short
\* body, a malformed chunk, the 30 seconds of the server's ReadTimeout).
Cuts == {"no", "limit", "broken"}

\* A health check is answered whatever else it says; an empty body is not
\* longer than the limit.
AllShapes ==
    {s \in [health : BOOLEAN,  \* the path is /health
            post   : BOOLEAN,  \* the method is POST
            sse    : BOOLEAN,  \* Accept contains text/event-stream
            json   : BOOLEAN,  \* Content-Type starts with application/json
            text   : Texts,
            cut    : Cuts,
            owner  : Clients \cup {NoClient},  \* whose token it presents
            reads  : BOOLEAN]  \* the client reads what it is sent
     : /\ s.text.method = "none" => s.cut # "limit"
       /\ s.health => /\ ~ s.post /\ ~ s.sse /\ ~ s.json /\ s.reads
                       /\ s.text.method = "none" /\ s.cut = "no" /\ s.owner = NoClient}

Statuses == {200, 401, 403, 502}  \* as far as the code tells them apart

ASSUME PathOK == /\ Shapes \subseteq AllShapes
                 /\ NoClient \notin Clients
                 /\ Answers \subseteq Statuses
                 /\ MaxEvents \in Nat

VARIABLES req,       \* the shape of each request
          pc,        \* the layer that holds it
          body,      \* r.Body: what the next reader will get
          toolName,  \* what the audit middleware will record as the tool
          ctx,       \* TokenInfo.ClientID in the context
          header,    \* X-Audit-Client-Id in the response header map
          rec,       \* the status recorder: status and captured client
          deadline,  \* the connection has a write deadline
          sent,      \* why the response committed to the client is what it is
          forwarded, \* what was handed to the upstream transport
          trail,     \* audit entries, in the order of Logger.Log
          gone,      \* the requests whose client has closed its connection
          cancelled, \* the requests whose context is over
          stream     \* the events of each stream: how many upstream has emitted,
                     \* handleSSE has taken and written, and the client has got

vars == <<req, pc, body, toolName, ctx, header, rec, deadline, sent, forwarded, trail,
          gone, cancelled, stream>>

\* All that only the relaying of a response touches.
relay == <<gone, cancelled, stream>>

Layers == {"new", "audit", "auth", "policy", "proxy", "upstream", "copy",
           "sse", "stream", "event", "flush", "record", "done"}
Reasons == {"health", "unauthorized", "forbidden", "type", "size", "read", "parse",
            "unavailable", "upstream"}

\* http.MaxBytesReader followed by io.ReadAll: the text up to the limit or the
\* break, and an error if there is one.
Truncated(b) == b.cut # "no"

\* io.NopCloser(bytes.NewReader(...)) over what was read: a complete stream.
Restored(b) == [text |-> b.text, cut |-> "no"]

\* What can be recorded as the tool, and the types of the composite variables.
Labels == {"unknown", "GET", "tools/call", "handshake", "other"}
Bodies == [text : Texts, cut : Cuts]
Recorders == [status : Statuses \cup {0}, client : Clients \cup {NoClient}]
Entries == [from : Requests, client : Clients \cup {NoClient}, tool : Labels,
            decision : {"ALLOW", "DENY"}]
EventStreams == [emitted : 0..MaxEvents, taken : 0..MaxEvents, written : 0..MaxEvents,
                 got : 0..MaxEvents, last : BOOLEAN, upstream : {"open", "ended", "broken"}]

TypeOK ==
    /\ req \in [Requests -> Shapes \cup {NoShape}]
    /\ pc \in [Requests -> Layers]
    /\ body \in [Requests -> Bodies]
    /\ toolName \in [Requests -> Labels]
    /\ ctx \in [Requests -> Clients \cup {NoClient}]
    /\ header \in [Requests -> Clients \cup {NoClient}]
    /\ rec \in [Requests -> Recorders]
    /\ deadline \in [Requests -> BOOLEAN]
    /\ sent \in [Requests -> Reasons \cup {"nothing"}]
    /\ forwarded \subseteq [from : Requests, text : Texts]
    /\ trail \in Seq(Entries)
    /\ gone \subseteq Requests
    /\ cancelled \subseteq Requests
    /\ stream \in [Requests -> EventStreams]

Init == /\ req = [r \in Requests |-> NoShape]
        /\ pc = [r \in Requests |-> "new"]
        /\ body = [r \in Requests |-> [text |-> [method |-> "none", tool |-> NoTool], cut |-> "no"]]
        /\ toolName = [r \in Requests |-> "unknown"]
        /\ ctx = [r \in Requests |-> NoClient]
        /\ header = [r \in Requests |-> NoClient]
        /\ rec = [r \in Requests |-> [status |-> 0, client |-> NoClient]]
        /\ deadline = [r \in Requests |-> FALSE]
        /\ sent = [r \in Requests |-> "nothing"]
        /\ forwarded = {}
        /\ trail = <<>>
        /\ gone = {}
        /\ cancelled = {}
        /\ stream = [r \in Requests |-> [emitted |-> 0, taken |-> 0, written |-> 0, got |-> 0,
                                         last |-> FALSE, upstream |-> "open"]]

Goto(r, layer) == pc' = [pc EXCEPT ![r] = layer]

\* Mutant of Respond: the internal header is stripped before it is read.
RespondStripped(r, status, reason) ==
    /\ rec' = [rec EXCEPT ![r].status = status]
    /\ header' = [header EXCEPT ![r] = NoClient]
    /\ sent' = [sent EXCEPT ![r] = reason]

\* statusRecorder.WriteHeader: note the status, take the client from the
\* internal header, strip it, and commit.
Respond(r, status, reason) ==
    /\ rec' = [rec EXCEPT ![r] = [status |-> status,
                                  client |-> IF header[r] # NoClient THEN header[r] ELSE @.client]]
    /\ header' = [header EXCEPT ![r] = NoClient]
    /\ sent' = [sent EXCEPT ![r] = reason]

\* The request reaches the server.  RequestIDMiddleware only adds an identifier.
Arrive(r, q) == /\ pc[r] = "new"
                /\ req' = [req EXCEPT ![r] = q]
                /\ body' = [body EXCEPT ![r] = [text |-> q.text, cut |-> q.cut]]
                /\ Goto(r, "audit")
                /\ UNCHANGED <<toolName, ctx, header, rec, deadline, sent, forwarded, trail, relay>>

\* /health is skipped by audit, auth and policy, and answered without a recorder.
Health(r) == /\ pc[r] = "audit"
             /\ req[r].health
             /\ sent' = [sent EXCEPT ![r] = "health"]
             /\ Goto(r, "done")
             /\ UNCHANGED <<req, body, toolName, ctx, header, rec, deadline, forwarded, trail, relay>>

\* Mutant of AuditEnter: the request goes past token verification.
AuditEnterSkipsAuth(r) ==
    /\ pc[r] = "audit"
    /\ ~ req[r].health
    /\ Goto(r, "policy")
    /\ UNCHANGED <<req, body, toolName, ctx, header, rec, deadline, sent, forwarded, trail, relay>>

\* The audit middleware on the way in: limit a POST's body, and if it is JSON
\* read it all for the method and put back what was read, cut short or not.
AuditEnter(r) ==
    LET q == req[r]
        reading == q.post /\ q.json
    IN /\ pc[r] = "audit"
       /\ ~ q.health
       /\ toolName' = [toolName EXCEPT ![r] =
                         IF ~ q.post THEN "GET"
                         ELSE IF reading /\ ~ Truncated(body[r]) /\ body[r].text \in Calls
                              THEN body[r].text.method
                              ELSE "unknown"]
       /\ body' = IF reading THEN [body EXCEPT ![r] = Restored(@)] ELSE body
       /\ Goto(r, "auth")
       /\ UNCHANGED <<req, ctx, header, rec, deadline, sent, forwarded, trail, relay>>

\* Token verification, in one of the two ways a TokenGate may end.
Admit(r) == /\ pc[r] = "auth"
            /\ req[r].owner # NoClient
            /\ ctx' = [ctx EXCEPT ![r] = req[r].owner]
            /\ header' = [header EXCEPT ![r] = req[r].owner]
            /\ Goto(r, "policy")
            /\ UNCHANGED <<req, body, toolName, rec, deadline, sent, forwarded, trail, relay>>

Reject(r) == /\ pc[r] = "auth"
             /\ Respond(r, 401, "unauthorized")
             /\ Goto(r, "record")
             /\ UNCHANGED <<req, body, toolName, ctx, deadline, forwarded, trail, relay>>

\* default.rego
Allowed(client, call) ==
    \/ call.method = "handshake"
    \/ /\ call.method = "tools/call"
       /\ client \in DOMAIN Grants
       /\ {call.tool, Wildcard} \cap Grants[client] # {}

\* Evaluate: OPA's decision, or, as callers treat any error as a deny, FALSE: OPA
\* is unreachable, not 200, undefined, undecodable, or cancelled with the
\* client's request.
Verdicts(client, call) == {Allowed(client, call), FALSE}

\* Mutant of Evaluates: only tool calls are put to the policy.
EvaluatesToolCalls(q, b) == q.json /\ ~ Truncated(b) /\ b.text.method = "tools/call"

\* buildInput: does the policy middleware evaluate this body?
\* An empty body is evaluated too, as a call of no method.
Evaluates(q, b) == q.json /\ ~ Truncated(b) /\ b.text.method # "garbage"

\* Mutant of PolicyBody: what was read is not put back.
PolicyDrains(r) == body' = IF req[r].json
                           THEN [body EXCEPT ![r] = [text |-> [method |-> "none", tool |-> NoTool],
                                                     cut |-> "no"]]
                           ELSE body

\* readBody reads and restores every JSON body, whatever becomes of it.
PolicyBody(r) == body' = IF req[r].json THEN [body EXCEPT ![r] = Restored(@)] ELSE body

\* Not a POST, or a POST that buildInput leaves to the proxy handler.
PolicyPass(r) == /\ pc[r] = "policy"
                 /\ req[r].post => ~ Evaluates(req[r], body[r])
                 /\ IF req[r].post THEN PolicyBody(r) ELSE UNCHANGED body
                 /\ Goto(r, "proxy")
                 /\ UNCHANGED <<req, toolName, ctx, header, rec, deadline, sent, forwarded, trail, relay>>

PolicyAllow(r) == /\ pc[r] = "policy"
                  /\ req[r].post /\ Evaluates(req[r], body[r])
                  /\ TRUE \in Verdicts(ctx[r], body[r].text)
                  /\ PolicyBody(r)
                  /\ Goto(r, "proxy")
                  /\ UNCHANGED <<req, toolName, ctx, header, rec, deadline, sent, forwarded, trail, relay>>

\* Mutant of PolicyDeny: a denied request leaves no entry.
PolicyDenyUnrecorded(r) ==
    /\ pc[r] = "policy"
    /\ req[r].post /\ Evaluates(req[r], body[r])
    /\ FALSE \in Verdicts(ctx[r], body[r].text)
    /\ PolicyBody(r)
    /\ Respond(r, 403, "forbidden")
    /\ Goto(r, "done")
    /\ UNCHANGED <<req, toolName, ctx, deadline, forwarded, trail, relay>>

PolicyDeny(r) == /\ pc[r] = "policy"
                 /\ req[r].post /\ Evaluates(req[r], body[r])
                 /\ FALSE \in Verdicts(ctx[r], body[r].text)
                 /\ PolicyBody(r)
                 /\ Respond(r, 403, "forbidden")
                 /\ Goto(r, "record")
                 /\ UNCHANGED <<req, toolName, ctx, deadline, forwarded, trail, relay>>

Forward(r) == forwarded' = forwarded \cup {[from |-> r, text |-> body[r].text]}

\* handleSSE streams r.Body to upstream as it is.
SSEStart(r) == /\ pc[r] = "proxy"
               /\ req[r].sse
               /\ Forward(r)
               /\ Goto(r, "sse")
               /\ UNCHANGED <<req, body, toolName, ctx, header, rec, deadline, sent, trail, relay>>

SSEAnswer(r, status) == /\ pc[r] = "sse"
                        /\ Respond(r, status, "upstream")
                        /\ Goto(r, "stream")
                        /\ UNCHANGED <<req, body, toolName, ctx, deadline, forwarded, trail, relay>>

SSEFail(r) == /\ pc[r] = "sse"
              /\ Respond(r, 502, "unavailable")
              /\ Goto(r, "record")
              /\ UNCHANGED <<req, body, toolName, ctx, deadline, forwarded, trail, relay>>

(* The loop of handleSSE, between an upstream that emits when it likes and a *)
(* client that may leave.                                                    *)

Streaming == {"stream", "event", "flush"}
Front == <<req, body, toolName, ctx, header, rec, deadline, sent, forwarded, trail>>

UpstreamEmits(r) == /\ pc[r] \in Streaming
                    /\ stream[r].upstream = "open"
                    /\ stream[r].emitted < MaxEvents
                    /\ stream' = [stream EXCEPT ![r].emitted = @ + 1]
                    /\ UNCHANGED <<Front, pc, gone, cancelled>>

UpstreamCloses(r, how) == /\ pc[r] \in Streaming
                          /\ stream[r].upstream = "open"
                          /\ stream' = [stream EXCEPT ![r].upstream = how]
                          /\ UNCHANGED <<Front, pc, gone, cancelled>>

ClientLeaves(r) == /\ pc[r] \in Streaming \cup {"sse", "copy"}
                   /\ r \notin gone
                   /\ gone' = gone \cup {r}
                   /\ UNCHANGED <<Front, pc, cancelled, stream>>

\* net/http watches the connection while the handler runs, once the request's
\* body has been read to its end.
Watched(q) == q.cut = "no" /\ (q.text.method = "none" \/ (q.post /\ q.json))

\* The watching read fails, and net/http cancels the context, when the client
\* leaves, and as well when the connection's read deadline passes, which the
\* server's ReadTimeout has set to 30 seconds after the request began.
ContextEnds(r) == /\ pc[r] \in Streaming \cup {"sse"}
                  /\ r \notin cancelled
                  /\ cancelled' = cancelled \cup {r}
                  /\ UNCHANGED <<Front, pc, gone, stream>>

\* What ends the reading: no more to come, a broken connection, a context over.
ReadEnds(r, taken) == \/ stream[r].upstream = "ended" /\ taken = stream[r].emitted
                      \/ stream[r].upstream = "broken"
                      \/ r \in cancelled

\* Mutant of StreamRead: the error is looked at before the data it came with.
StreamReadErrorFirst(r) ==
    /\ pc[r] = "stream"
    /\ \/ /\ \E n \in (stream[r].taken + 1)..stream[r].emitted :
                stream' = [stream EXCEPT ![r].taken = n]
          /\ \/ Goto(r, "event")
             \/ ReadEnds(r, stream'[r].taken) /\ Goto(r, "record")
       \/ ReadEnds(r, stream[r].taken) /\ Goto(r, "record") /\ UNCHANGED stream
    /\ UNCHANGED <<Front, gone, cancelled>>

\* resp.Body.Read: some of what is there, perhaps with the error that ends it,
\* or that error alone.
StreamRead(r) ==
    /\ pc[r] = "stream"
    /\ \/ /\ \E n \in (stream[r].taken + 1)..stream[r].emitted, last \in BOOLEAN :
                /\ last => ReadEnds(r, n)
                /\ stream' = [stream EXCEPT ![r].taken = n, ![r].last = last]
          /\ Goto(r, "event")
       \/ ReadEnds(r, stream[r].taken) /\ Goto(r, "record") /\ UNCHANGED stream
    /\ UNCHANGED <<Front, gone, cancelled>>

\* The write goes to a buffer; it may fail when the client has gone.
StreamWrite(r) ==
    /\ pc[r] = "event"
    /\ \/ stream' = [stream EXCEPT ![r].written = stream[r].taken] /\ Goto(r, "flush")
       \/ r \in gone /\ Goto(r, "record") /\ UNCHANGED stream
    /\ UNCHANGED <<Front, gone, cancelled>>

\* Mutant of StreamFlush: the recorder's Flush does not reach the connection.
StreamFlushLost(r) ==
    /\ pc[r] = "flush"
    /\ Goto(r, IF stream[r].last THEN "record" ELSE "stream")
    /\ UNCHANGED <<Front, relay>>

\* statusRecorder.Flush hands on to the connection's.  It blocks on a client
\* that stays and does not read, and does not tell when it has failed.
StreamFlush(r) ==
    /\ pc[r] = "flush"
    /\ req[r].reads \/ r \in gone
    /\ stream' = [stream EXCEPT ![r].got = IF r \in gone THEN @ ELSE stream[r].written]
    /\ Goto(r, IF stream[r].last THEN "record" ELSE "stream")
    /\ UNCHANGED <<Front, gone, cancelled>>

\* ResponseController.SetWriteDeadline needs the writer to be the connection's
\* or to unwrap to it; the audit middleware's statusRecorder has no Unwrap.
DeadlineReachesConn == FALSE

\* What handleProxy finds wrong with a request that is not SSE.
Fault(q, b) == IF q.post /\ ~ q.json THEN "type"
               ELSE IF b.cut = "limit" THEN "size"
               ELSE IF b.cut = "broken" THEN "read"
               ELSE IF q.post /\ b.text.method = "garbage" THEN "parse"
               ELSE "none"

\* Mutant of Refuse: the error is written and the handler goes on.
RefuseGoesOn(r) == /\ pc[r] = "proxy"
                   /\ ~ req[r].sse
                   /\ Fault(req[r], body[r]) # "none"
                   /\ deadline' = [deadline EXCEPT ![r] = DeadlineReachesConn]
                   /\ Respond(r, 200, Fault(req[r], body[r]))
                   /\ Forward(r)
                   /\ Goto(r, "upstream")
                   /\ UNCHANGED <<req, body, toolName, ctx, trail, relay>>

Refuse(r) == /\ pc[r] = "proxy"
             /\ ~ req[r].sse
             /\ Fault(req[r], body[r]) # "none"
             /\ deadline' = [deadline EXCEPT ![r] = DeadlineReachesConn]
             /\ Respond(r, 200, Fault(req[r], body[r]))
             /\ Goto(r, "record")
             /\ UNCHANGED <<req, body, toolName, ctx, forwarded, trail, relay>>

Relay(r) == /\ pc[r] = "proxy"
            /\ ~ req[r].sse
            /\ Fault(req[r], body[r]) = "none"
            /\ deadline' = [deadline EXCEPT ![r] = DeadlineReachesConn]
            /\ Forward(r)
            /\ Goto(r, "upstream")
            /\ UNCHANGED <<req, body, toolName, ctx, header, rec, sent, trail, relay>>

\* The client's 30 seconds end every exchange: upstream answers or the call fails.
UpstreamAnswer(r, status) == /\ pc[r] = "upstream"
                             /\ Respond(r, status, "upstream")
                             /\ Goto(r, "copy")
                             /\ UNCHANGED <<req, body, toolName, ctx, deadline, forwarded, trail, relay>>

\* Mutant of UpstreamFail: the call is sent again.
UpstreamRetry(r) == /\ pc[r] = "upstream"
                    /\ Goto(r, "proxy")
                    /\ UNCHANGED <<req, body, toolName, ctx, header, rec, deadline, sent, forwarded, trail, relay>>

UpstreamFail(r) == /\ pc[r] = "upstream"
                   /\ Respond(r, 200, "unavailable")
                   /\ Goto(r, "record")
                   /\ UNCHANGED <<req, body, toolName, ctx, deadline, forwarded, trail, relay>>

\* Mutant of CopyEnd: the audit middleware is done before its handler is.
CopyEndUnrecorded(r) == /\ pc[r] = "copy"
                        /\ req[r].reads \/ r \in gone \/ deadline[r]
                        /\ Goto(r, "done")
                        /\ UNCHANGED <<Front, relay>>

\* io.Copy to the client: it ends when the client reads or leaves, or when the
\* write deadline of the connection passes.
CopyEnd(r) == /\ pc[r] = "copy"
              /\ req[r].reads \/ r \in gone \/ deadline[r]
              /\ Goto(r, "record")
              /\ UNCHANGED <<Front, relay>>

\* Mutant of Decision: no decision on a failure.
DecisionUnset(status) == IF status \in {401, 403} THEN "DENY"
                         ELSE IF status = 200 THEN "ALLOW" ELSE "UNSET"

\* The audit middleware on the way out.
Decision(status) == IF status \in {401, 403} THEN "DENY" ELSE "ALLOW"

AuditExit(r) == /\ pc[r] = "record"
                /\ trail' = Append(trail, [from |-> r, client |-> rec[r].client,
                                           tool |-> toolName[r],
                                           decision |-> Decision(rec[r].status)])
                /\ Goto(r, "done")
                /\ UNCHANGED <<req, body, toolName, ctx, header, rec, deadline, sent, forwarded, relay>>

\* What the gateway does by itself, its HTTP clients' timeouts included, and
\* what waits for somebody else without a time limit; the layers that meet
\* another component, token verification or the audit trail, apart.
Handle(r) == \/ Health(r) \/ PolicyPass(r) \/ PolicyAllow(r) \/ PolicyDeny(r)
             \/ SSEStart(r) \/ Refuse(r) \/ Relay(r)
             \/ StreamRead(r) \/ StreamWrite(r) \/ StreamFlush(r)
             \/ \E s \in Answers : UpstreamAnswer(r, s)
             \/ UpstreamFail(r) \/ CopyEnd(r)

Outside(r) == \/ \E s \in Answers : SSEAnswer(r, s)
              \/ SSEFail(r) \/ UpstreamEmits(r)
              \/ \E how \in {"ended", "broken"} : UpstreamCloses(r, how)
              \/ ClientLeaves(r) \/ ContextEnds(r)

Serve(r) == Handle(r) \/ AuditEnter(r) \/ Admit(r) \/ Reject(r) \/ AuditExit(r)
Await(r) == Outside(r) \/ \E q \in Shapes : Arrive(r, q)

\* All requests are served and no other comes.
Finished == /\ \A r \in Requests : pc[r] = "done"
            /\ UNCHANGED vars

Next == (\E r \in Requests : Serve(r) \/ Await(r)) \/ Finished

SafeSpec == Init /\ [][Next]_vars

\* A context that net/http watches ends at last, and so does a call with it.
Spec == /\ SafeSpec
        /\ \A r \in Requests : /\ WF_vars(Serve(r))
                              /\ WF_vars(ContextEnds(r) /\ Watched(req[r]))
                              /\ WF_vars(SSEFail(r) /\ r \in cancelled)
--------------------------------------------------------------------------
(* What makes it correct. *)

\* What the policy is asked about: a regular POST, and a JSON-RPC call that
\* asks for a stream.
Governed(q, text) == q.post /\ (~ q.sse \/ (q.json /\ text \in Calls))

\* The policy is the only way upstream: every call that is forwarded from a
\* regular POST, or from a JSON POST that asks for a stream, is one the policy
\* allows to the owner of the token, and it is the text the policy saw, after
\* three layers have each read and replaced the body.
ForwardedWasAllowed ==
    \A f \in forwarded :
        LET q == req[f.from]
        IN Governed(q, f.text) => /\ f.text \in Calls
                                  /\ q.owner # NoClient
                                  /\ Allowed(q.owner, f.text)

\* An audit entry tells what happened: who the request was admitted as, a DENY
\* for all the gateway itself refused, and for a call that went upstream whole
\* the method that went there.
AuditFaithful ==
    \A i \in DOMAIN trail :
        LET e == trail[i]
            q == req[e.from]
        IN /\ e.client = ctx[e.from]
           /\ sent[e.from] \in {"unauthorized", "forbidden"} => e.decision = "DENY"
           /\ e.client = NoClient => e.decision = "DENY"
           /\ (q.post /\ q.json /\ q.cut = "no") =>
                 \A f \in forwarded :
                    (f.from = e.from /\ f.text \in Calls) => e.tool = f.text.method

\* main.go:69, "100% audit log coverage": a request that is over has exactly one
\* entry, unless it is a health check; one that is not over has none.
AuditedOnce ==
    \A r \in Requests :
        Cardinality({i \in DOMAIN trail : trail[i].from = r})
            = IF pc[r] = "done" /\ ~ req[r].health THEN 1 ELSE 0

\* A request of a client that reads its response comes to its end, an event
\* stream, too, once its client has left or its context is over.
ReadersFinish ==
    \A r \in Requests :
        (pc[r] = "audit" /\ req[r].reads /\ (req[r].sse => Watched(req[r]))) ~> pc[r] = "done"

\* While handleSSE waits for upstream, nothing it has read is held back from a
\* client that is there, recorder in between or not.
NoEventHeldBack ==
    \A r \in Requests : pc[r] = "stream" /\ r \notin gone => stream[r].got = stream[r].taken

\* A stream that upstream has ended is delivered whole, its last event, too,
\* unless the client or the context was gone before.
StreamsWhole ==
    \A r \in Requests :
        (pc[r] \in {"record", "done"} /\ stream[r].upstream = "ended"
           /\ r \notin gone \cup cancelled) => stream[r].got = stream[r].emitted

Rights == {e \in Shapes \X Clients \X Texts :
              Governed(e[1], e[3]) => e[3] \in Calls /\ Allowed(e[2], e[3])}

Stage == [r \in Requests |-> CASE pc[r] = "new" -> "new"
                                [] pc[r] = "done" -> "over"
                                [] OTHER -> "open"]

Log == [i \in DOMAIN trail |-> [from |-> trail[i].from, client |-> trail[i].client,
                                 decision |-> trail[i].decision]]

Contract == INSTANCE Mediation WITH
    Calls <- Texts, asked <- req, stage <- Stage, identity <- ctx, upstream <- forwarded,
    log <- Log

\* All the layers together keep the promise of Mediation: what reaches upstream
\* does so once, in the token owner's name and by right, and nothing comes or
\* goes without its one entry.
PipelineContract == Contract!Spec

(* What comments in the code say of it. *)

\* policy/middleware.go:73-74 and 168-169: a POST that is not JSON-RPC passes
\* the policy so that the proxy rejects it "and never forwards it upstream".
MalformedStaysHere ==
    \A f \in forwarded :
        req[f.from].post => req[f.from].json /\ f.text \in Calls

\* audit/middleware.go:187-190 and policy/middleware.go:150: of an oversized
\* JSON body, once past the token, "the proxy handler returns the size-limit
\* error".
OversizedGetsSizeError ==
    \A r \in Requests :
        (pc[r] = "done" /\ ~ req[r].health /\ req[r].post /\ req[r].json
           /\ ~ req[r].sse /\ req[r].cut = "limit" /\ ctx[r] # NoClient)
        => sent[r] = "size"

\* audit/entry.go:17 and 30: the decision "is the authorization outcome", and DENY
\* "indicates the tool invocation was rejected": a tool call that the policy was
\* asked about, allowed and let go upstream is not recorded as a DENY.
DecisionIsOutcome ==
    \A i \in DOMAIN trail : \A f \in forwarded :
        (f.from = trail[i].from /\ f.text.method = "tools/call"
           /\ Governed(req[f.from], f.text)) => trail[i].decision = "ALLOW"

\* proxy.go:75-77 and 102-104: "SSE connections are long-lived streams; a finite
\* Timeout would kill the connection mid-stream", so there is none: a stream ends
\* when upstream ends it or the client leaves.
StreamsLast ==
    \A r \in Requests :
        (pc[r] \in {"record", "done"} /\ req[r].sse /\ sent[r] = "upstream")
            => r \in gone \/ stream[r].upstream # "open"

\* proxy.go:170-172, "we enforce timeouts on regular requests here": no regular
\* request outlasts its client's patience to read.
RegularRequestsFinish ==
    \A r \in Requests : (pc[r] = "audit" /\ ~ req[r].sse) ~> pc[r] = "done"
--------------------------------------------------------------------------
(* The strengthening that the proofs of Gateway_proofs carry along, layer  *)
(* by layer.                                                               *)

\* Where a request may be that has been handed to upstream.
Beyond == {"upstream", "sse", "copy", "record", "done"} \cup Streaming

ShapeOK(r) ==
    pc[r] # "new" => req[r] \in Shapes /\ (req[r].health => pc[r] \in {"audit", "done"})

\* The identity on its way from auth through the header to the recorder.
IdentityOK(r) ==
    /\ pc[r] \in {"new", "audit", "auth"} =>
          ctx[r] = NoClient /\ header[r] = NoClient /\ rec[r].client = NoClient
    /\ pc[r] \in {"policy", "proxy", "upstream", "sse"} =>
          ctx[r] # NoClient /\ header[r] = ctx[r]
    /\ pc[r] \in {"copy"} \cup Streaming => ctx[r] # NoClient
    /\ pc[r] \in {"copy", "record"} \cup Streaming => rec[r].client = ctx[r]
    /\ ctx[r] # NoClient => pc[r] # "new" /\ ctx[r] = req[r].owner

DenialOK(r) ==
    /\ pc[r] \in {"copy"} \cup Streaming => sent[r] = "upstream"
    /\ (pc[r] = "record" /\ (ctx[r] = NoClient \/ sent[r] \in {"unauthorized", "forbidden"}))
          => rec[r].status \in {401, 403}

\* Three layers read and replace the body, and none changes its text.
BodyOK(r) ==
    /\ pc[r] # "new" => body[r].text = req[r].text
    /\ pc[r] = "audit" => body[r].cut = req[r].cut
    /\ (pc[r] \notin {"new", "audit"} /\ req[r].post /\ req[r].json) =>
          /\ body[r].cut = "no"
          /\ (req[r].cut = "no" /\ req[r].text \in Calls) => toolName[r] = req[r].text.method
    /\ (pc[r] = "proxy" /\ req[r].post /\ req[r].json) =>
          body[r].text.method = "garbage" \/ Allowed(ctx[r], body[r].text)

StreamOK(r) ==
    LET s == stream[r]
    IN /\ s.taken <= s.emitted
       /\ pc[r] \notin {"record", "done"} \cup Streaming =>
             s.upstream = "open" /\ s.taken = 0 /\ s.got = 0
       /\ (pc[r] = "stream" /\ r \notin gone) => s.got = s.taken
       /\ pc[r] = "flush" => s.written = s.taken
       /\ (pc[r] \in {"event", "flush"} /\ s.last) => ReadEnds(r, s.taken)
       /\ (pc[r] \in {"record", "done"} /\ s.upstream = "ended" /\ r \notin gone \cup cancelled)
             => s.got = s.emitted

ForwardsOK ==
    \A f \in forwarded : /\ pc[f.from] \in Beyond
                         /\ f.text = req[f.from].text
                         /\ <<req[f.from], ctx[f.from], f.text>> \in Rights

TrailOK ==
    /\ \A i \in DOMAIN trail :
          LET e == trail[i]
          IN /\ pc[e.from] = "done" /\ ~ req[e.from].health
             /\ e.client = ctx[e.from]
             /\ e.tool = toolName[e.from]
             /\ (e.client = NoClient \/ sent[e.from] \in {"unauthorized", "forbidden"})
                   => e.decision = "DENY"
    /\ \A i, j \in DOMAIN trail : trail[i].from = trail[j].from => i = j
    /\ \A r \in Requests : pc[r] = "done" /\ ~ req[r].health =>
          \E i \in DOMAIN trail : trail[i].from = r

Inductive ==
    /\ TypeOK
    /\ \A r \in Requests : /\ ShapeOK(r) /\ IdentityOK(r) /\ DenialOK(r)
                           /\ BodyOK(r) /\ StreamOK(r)
    /\ ForwardsOK
    /\ TrailOK
==========================================================================
