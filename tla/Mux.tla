-------------------------------- MODULE Mux --------------------------------
(***************************************************************************)
(* The local mux: newProxy, rewriteResponse and swapBody of                *)
(* src/internal/proxy/proxy.go, with what src/internal/rewrite/rewrite.go  *)
(* does to a body, and the part of Go's ReverseProxy around them.          *)
(*                                                                         *)
(* A request is routed and stamped, the upstream answers with a header and *)
(* then sends its body piece by piece, and the mux either passes the       *)
(* pieces on as they come or holds the body back until it can rewrite it   *)
(* whole.  Each request has a slot, free again when it has been answered.  *)
(* What the upstreams answer is up to Serving.tla.                         *)
(*                                                                         *)
(* A body is a sequence of references: a kind, and the origin it names.    *)
(***************************************************************************)
EXTENDS Routing, Integers

CONSTANTS
  Slots,        \* requests in flight
  Requests,     \* the requests browsers may make
  HotOrigins    \* origins of the Vite dev server

\* Of a request, what the mux and the application behind it look at.
ASSUME RequestAssumption ==
  \A r \in Requests :
    /\ r \in [path : Seq(STRING), upgrade : STRING, html : BOOLEAN, head : BOOLEAN,
             proto : STRING, host : STRING]
    /\ IsTarget(r.path)

ASSUME HotAssumption == HotOrigins \subseteq [scheme : STRING, host : STRING]

Origin(scheme, host) == [scheme |-> scheme, host |-> host]
NoOrigin == Origin("", "")

Kinds == {"asset", "link", "hmr", "echo", "text"}

VARIABLES
  hot,        \* the content of public/hot, NoOrigin when there is none
  stage,      \* of a slot: "free", "sent", "header", "stream", "swap", "done"
  req,        \* the request in a slot
  out,        \* what the mux sent upstream for it
  resp,       \* the header of the response
  rewriter,   \* how its body is going to be rewritten, and the hot origin read
  sent,       \* what the upstream has sent of the body
  upstream,   \* "open", "eof" or "broken": the upstream's side of the response
  got,        \* what the client has received of the body
  result      \* what the client makes of it: "open", "complete" or "cut"

muxVars == <<hot, stage, req, out, resp, rewriter, sent, upstream, got, result>>

MuxInit ==
  /\ hot \in HotOrigins \cup {NoOrigin}
  /\ stage = [q \in Slots |-> "free"]
  /\ req = [q \in Slots |-> << >>]
  /\ out = [q \in Slots |-> << >>]
  /\ resp = [q \in Slots |-> << >>]
  /\ rewriter = [q \in Slots |-> << >>]
  /\ sent = [q \in Slots |-> << >>]
  /\ upstream = [q \in Slots |-> "open"]
  /\ got = [q \in Slots |-> << >>]
  /\ result = [q \in Slots |-> "open"]

----------------------------------------------------------------------------
(* The request: ServeHTTP and Rewrite.                                     *)

\* Responses to these may be rewritten and must come uncompressed.
MayRewrite(name, r) == name = "vite" \/ (name = "app" /\ r.html)

\* Bug: SetXForwarded has the last word.
StampOverwrites(r) ==
  LET name == Route(r)
  IN [name |-> name, host |-> IF name = "vite" THEN "vite" ELSE r.host,
      fwdHost |-> r.host, fwdProto |-> "http", marker |-> TRUE,
      identity |-> MayRewrite(name, r)]

\* Vite sees its own host, the others the public one; the edge's
\* X-Forwarded-Proto is kept.
Stamp(r) ==
  LET name == Route(r)
  IN [name |-> name, host |-> IF name = "vite" THEN "vite" ELSE r.host,
      fwdHost |-> r.host, fwdProto |-> IF r.proto = "" THEN "http" ELSE r.proto,
      marker |-> TRUE, identity |-> MayRewrite(name, r)]

Arrive(q) ==
  /\ stage[q] = "free"
  /\ stage' = [stage EXCEPT ![q] = "sent"]
  /\ \E r \in Requests :
       /\ req' = [req EXCEPT ![q] = r]
       /\ out' = [out EXCEPT ![q] = Stamp(r)]
  /\ UNCHANGED <<hot, resp, rewriter, sent, upstream, got, result>>

\* ErrorHandler: 502, with a text that names the upstream.
BadGateway(q) ==
  /\ stage[q] = "sent"
  /\ stage' = [stage EXCEPT ![q] = "done"]
  /\ resp' = [resp EXCEPT ![q] = [status |-> 502, type |-> "text",
                encoded |-> FALSE, length |-> -1, body |-> << >>, endless |-> FALSE]]
  /\ result' = [result EXCEPT ![q] = "complete"]
  /\ UNCHANGED <<hot, req, out, rewriter, sent, upstream, got>>

----------------------------------------------------------------------------
(* What a rewrite does to a body.                                          *)

\* HTML: every occurrence of the hot origin becomes the public one.
HTML(body, hotOrigin, public) ==
  [i \in DOMAIN body |-> IF body[i].at = hotOrigin
                         THEN [body[i] EXCEPT !.at = public] ELSE body[i]]

\* ViteClient: the baked literals become null, and the client infers its
\* connection from where it was loaded.
ViteClient(body) ==
  [i \in DOMAIN body |-> IF body[i].kind = "hmr"
                         THEN [body[i] EXCEPT !.at = NoOrigin] ELSE body[i]]

\* ReverbEnv: Echo connects to the public host, over TLS.
ReverbEnv(body, host) ==
  [i \in DOMAIN body |-> IF body[i].kind = "echo"
                         THEN [body[i] EXCEPT !.at = Origin("https", host)] ELSE body[i]]

PublicOrigin(o) == Origin(o.fwdProto, o.fwdHost)

Rewritten(rw, o, body) ==
  CASE rw.kind = "client" -> ViteClient(body)
    [] rw.kind = "reverb" -> ReverbEnv(body, o.fwdHost)
    [] rw.kind = "html"   -> HTML(body, rw.hot, PublicOrigin(o))

\* The length of a body: a public origin is longer than a local one.
Bytes(body) ==
  Len(body) + Cardinality({i \in DOMAIN body : body[i].at.scheme = "https"})

----------------------------------------------------------------------------
(* The response: rewriteResponse and swapBody, and the copy of the body.   *)

\* Bug: what was requested as a page is taken for one.
RewriterByRequest(q) ==
  IF resp[q].status # 200 \/ resp[q].encoded THEN "none"
  ELSE IF out[q].name = "app" /\ out[q].identity /\ hot # NoOrigin THEN "html"
  ELSE "none"

\* Bug: an error page is rewritten like any other.
RewriterAnyStatus(q) ==
  IF resp[q].encoded THEN "none"
  ELSE IF out[q].name = "app" /\ resp[q].type = "html" /\ hot # NoOrigin THEN "html"
  ELSE "none"

\* Which of the rewrites applies, if any.
Rewriter(q) ==
  LET name == out[q].name
      client == req[q].path = Subtree("@vite") \o <<"client">>
  IN IF resp[q].status # 200 \/ resp[q].encoded THEN "none"
     ELSE IF name = "vite" /\ client THEN "client"
     ELSE IF name = "vite" /\ Reverb /\ resp[q].type = "javascript" THEN "reverb"
     ELSE IF name = "app" /\ resp[q].type = "html" /\ hot # NoOrigin THEN "html"
     ELSE "none"

\* The header of the response has come: the hot file is read now.
ModifyResponse(q) ==
  /\ stage[q] = "header"
  /\ LET kind == Rewriter(q)
     IN /\ rewriter' = [rewriter EXCEPT ![q] = [kind |-> kind, hot |-> hot]]
        /\ stage' = [stage EXCEPT ![q] = IF kind = "none" THEN "stream" ELSE "swap"]
  /\ UNCHANGED <<hot, req, out, resp, sent, upstream, got, result>>

\* Bug: a body is passed on while it is being read.
ForwardAlways(q) ==
  /\ stage[q] \in {"stream", "swap"}
  /\ got[q] # sent[q]
  /\ got' = [got EXCEPT ![q] = sent[q]]
  /\ UNCHANGED <<hot, stage, req, out, resp, rewriter, sent, upstream, result>>

\* FlushInterval is -1: whatever has come is passed on.
Forward(q) ==
  /\ stage[q] = "stream"
  /\ got[q] # sent[q]
  /\ got' = [got EXCEPT ![q] = sent[q]]
  /\ UNCHANGED <<hot, stage, req, out, resp, rewriter, sent, upstream, result>>

\* The server notices a body that is not as long as its header says.
Deliver(q, body, length) ==
  /\ stage' = [stage EXCEPT ![q] = "done"]
  /\ got' = [got EXCEPT ![q] = body]
  /\ resp' = [resp EXCEPT ![q].length = length]
  /\ result' = [result EXCEPT ![q] =
       IF length \in {-1, Bytes(body)} \/ req[q].head THEN "complete" ELSE "cut"]

\* A body passed on ends as the upstream's does: a copy that fails aborts the
\* response.
StreamEnds(q) ==
  /\ stage[q] = "stream"
  /\ got[q] = sent[q]
  /\ \/ upstream[q] = "eof" /\ Deliver(q, got[q], resp[q].length)
     \/ /\ upstream[q] = "broken"
        /\ stage' = [stage EXCEPT ![q] = "done"]
        /\ result' = [result EXCEPT ![q] = "cut"]
        /\ UNCHANGED <<resp, got>>
  /\ UNCHANGED <<hot, req, out, rewriter, sent, upstream>>

\* Bug: Content-Length stays what it was.
SwapKeepsLength(q) ==
  /\ stage[q] = "swap"
  /\ \/ /\ upstream[q] = "eof"
        /\ Deliver(q, Rewritten(rewriter[q], out[q], sent[q]), resp[q].length)
     \/ upstream[q] = "broken" /\ Deliver(q, << >>, resp[q].length)
  /\ UNCHANGED <<hot, req, out, rewriter, sent, upstream>>

\* Bug: an error is not told from a body that has not ended yet.
SwapWaits(q) ==
  /\ stage[q] = "swap"
  /\ upstream[q] = "eof"
  /\ LET body == Rewritten(rewriter[q], out[q], sent[q])
     IN Deliver(q, body, Bytes(body))
  /\ UNCHANGED <<hot, req, out, rewriter, sent, upstream>>

\* The whole body has been read, or an error: then the body is emptied and the
\* header left as it is.
SwapBody(q) ==
  /\ stage[q] = "swap"
  /\ \/ /\ upstream[q] = "eof"
        /\ LET body == Rewritten(rewriter[q], out[q], sent[q])
           IN Deliver(q, body, Bytes(body))
     \/ upstream[q] = "broken" /\ Deliver(q, << >>, resp[q].length)
  /\ UNCHANGED <<hot, req, out, rewriter, sent, upstream>>

\* The connection takes its next request.
Close(q) ==
  /\ stage[q] = "done"
  /\ stage' = [stage EXCEPT ![q] = "free"]
  /\ req' = [req EXCEPT ![q] = << >>]
  /\ out' = [out EXCEPT ![q] = << >>]
  /\ resp' = [resp EXCEPT ![q] = << >>]
  /\ rewriter' = [rewriter EXCEPT ![q] = << >>]
  /\ sent' = [sent EXCEPT ![q] = << >>]
  /\ upstream' = [upstream EXCEPT ![q] = "open"]
  /\ got' = [got EXCEPT ![q] = << >>]
  /\ result' = [result EXCEPT ![q] = "open"]
  /\ UNCHANGED hot

MuxStep(q) ==
  ModifyResponse(q) \/ Forward(q) \/ StreamEnds(q) \/ SwapBody(q)
============================================================================
