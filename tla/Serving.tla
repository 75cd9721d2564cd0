------------------------------ MODULE Serving ------------------------------
(***************************************************************************)
(* A project being served: browsers, the mux (Mux.tla), the Laravel        *)
(* application with the middleware of the Composer package                 *)
(* (Middleware.tla), the Vite dev server and Reverb.                       *)
(*                                                                         *)
(* The application and the dev server are outside localhoist.  They are    *)
(* modelled by what localhoist relies on: Laravel bakes the content of     *)
(* public/hot into a page and derives links from what it takes for the     *)
(* browser's origin, Vite bakes local addresses into what it serves, and   *)
(* both honour Accept-Encoding.                                            *)
(***************************************************************************)
EXTENDS Mux, Middleware, Laravel

CONSTANTS
  Remote,       \* the address the application sees the mux connect from
  Lock,         \* the entries of composer.lock
  NoPatch,      \* --no-env-patch
  ForcePatch    \* --env-patch

VARIABLE
  visited       \* the origin seen in the last visit past the mux

svars == <<muxVars, trusted, visited>>

\* A version recent enough to be detected has the middleware.
ASSUME LockAssumption == HasTrustedProxyPackage(Lock) => Installed

Init ==
  /\ MuxInit
  /\ MiddlewareInit
  /\ visited = NoOrigin

----------------------------------------------------------------------------
(* The upstreams.                                                          *)

Ref(kind, at) == [kind |-> kind, at |-> at]
Text == Ref("text", NoOrigin)

Response(status, type, body) ==
  [status |-> status, type |-> type, body |-> body, encoded |-> FALSE,
   length |-> -1, endless |-> FALSE]

Framed(r, length) == [r EXCEPT !.length = length]
Endless(r) == [r EXCEPT !.endless = TRUE]

\* A page of the application: an asset by @vite if the dev server runs, and a
\* link; an error page is one too, and a redirect is a link.  A page may be
\* streamed for as long as it likes, and a feed never ends.
AppResponses(link) ==
  LET body == (IF hot = NoOrigin THEN << >> ELSE << Ref("asset", hot) >>)
                \o << Ref("link", link) >>
      page == Response(200, "html", body)
  IN {page, Framed(page, Bytes(body)), Endless(page), Response(500, "html", body),
      Response(302, "html", << Ref("link", link) >>),
      Endless(Response(200, "event-stream", << Text, Text >>))}

ViteResponses(r) ==
  LET local == Origin("http", "localhost")
      client == Response(200, "javascript", << Ref("hmr", local), Text >>)
      module == Response(200, "javascript", << Ref("echo", local), Text >>)
  IN IF r.path = Subtree("@vite") \o <<"client">>
     THEN {Framed(client, Bytes(client.body))}
     ELSE {Framed(module, Bytes(module.body)), Response(404, "text", << Text >>)}

Upgraded == Endless(Response(101, "websocket", << Text, Text >>))

\* The responses as they may be sent: compressed unless that was ruled out, and to
\* a HEAD request without a body, which ends at once.
Encodings(identity) == {FALSE, ~identity}

AsSent(r, head, zip) ==
  [r EXCEPT !.encoded = zip, !.body = IF head THEN << >> ELSE @,
            !.endless = @ /\ ~head]

Sent(q, responses) ==
  {AsSent(r, req[q].head, zip) : r \in responses, zip \in Encodings(out[q].identity)}

\* The upstream has rendered its response and sends the header.
Respond(q) ==
  /\ stage[q] = "sent"
  /\ stage' = [stage EXCEPT ![q] = "header"]
  /\ \/ /\ req[q].upgrade # "" /\ UNCHANGED trusted
        /\ resp' = [resp EXCEPT ![q] = Upgraded]
     \/ /\ req[q].upgrade = "" /\ out[q].name = "app"
        /\ Handle(Remote, out[q].marker)
        /\ LET link == Origin(SeenScheme(Remote, out[q].fwdProto),
                              SeenHost(Remote, out[q].host, out[q].fwdHost))
           IN \E r \in Sent(q, AppResponses(link)) : resp' = [resp EXCEPT ![q] = r]
     \/ /\ req[q].upgrade = "" /\ out[q].name = "vite" /\ UNCHANGED trusted
        /\ \E r \in Sent(q, ViteResponses(req[q])) : resp' = [resp EXCEPT ![q] = r]
     \/ /\ req[q].upgrade = "" /\ out[q].name = "reverb" /\ UNCHANGED trusted
        /\ resp' = [resp EXCEPT ![q] = Response(404, "text", << Text >>)]
  /\ UNCHANGED <<hot, req, out, rewriter, sent, upstream, got, result, visited>>

Answering(q) == stage[q] \in {"header", "stream", "swap"} /\ upstream[q] = "open"

\* The next piece of the body.
Send(q) ==
  /\ Answering(q)
  /\ Len(sent[q]) < Len(resp[q].body)
  /\ sent' = [sent EXCEPT ![q] = SubSeq(resp[q].body, 1, Len(@) + 1)]
  /\ UNCHANGED <<hot, stage, req, out, resp, rewriter, upstream, got, result,
                 trusted, visited>>

Finish(q) ==
  /\ Answering(q)
  /\ sent[q] = resp[q].body /\ ~resp[q].endless
  /\ upstream' = [upstream EXCEPT ![q] = "eof"]
  /\ UNCHANGED <<hot, stage, req, out, resp, rewriter, sent, got, result,
                 trusted, visited>>

\* The upstream dies, or is stopped, in the middle of a response.
BreakOff(q) ==
  /\ Answering(q)
  /\ sent[q] # resp[q].body \/ resp[q].endless
  /\ upstream' = [upstream EXCEPT ![q] = "broken"]
  /\ UNCHANGED <<hot, stage, req, out, resp, rewriter, sent, got, result,
                 trusted, visited>>

\* The dev server starts, stops, or starts again somewhere else.
ViteMoves ==
  /\ hot' \in (HotOrigins \cup {NoOrigin}) \ {hot}
  /\ UNCHANGED <<stage, req, out, resp, rewriter, sent, upstream, got, result,
                 trusted, visited>>

\* A local visitor who does not come through the mux, with the forwarded
\* headers of some other proxy.
VisitDirectly ==
  /\ Handle("127.0.0.1", FALSE)
  /\ visited' = Origin(SeenScheme("127.0.0.1", "https"),
                       SeenHost("127.0.0.1", "localhost", "elsewhere"))
  /\ UNCHANGED muxVars

----------------------------------------------------------------------------

MuxActs(q) ==
  (Arrive(q) \/ BadGateway(q) \/ MuxStep(q) \/ Close(q))
    /\ UNCHANGED <<trusted, visited>>

Next ==
  \/ \E q \in Slots :
       MuxActs(q) \/ Respond(q) \/ Send(q) \/ Finish(q) \/ BreakOff(q)
  \/ ViteMoves \/ VisitDirectly

\* The goroutine of a request runs; nothing is assumed of the upstreams.
Fairness ==
  \A q \in Slots : WF_svars(MuxStep(q) /\ UNCHANGED <<trusted, visited>>)

Spec == Init /\ [][Next]_svars /\ Fairness

----------------------------------------------------------------------------
(* Properties.                                                             *)

ServingTypeOK ==
  /\ hot \in HotOrigins \cup {NoOrigin}
  /\ trusted \subseteq {"127.0.0.1", "::1"}
  /\ \A q \in Slots :
       /\ stage[q] \in {"free", "sent", "header", "stream", "swap", "done"}
       /\ stage[q] = "free" <=> req[q] = << >>
       /\ stage[q] \in {"stream", "swap"} => rewriter[q] # << >>
       /\ upstream[q] \in {"open", "eof", "broken"}
       /\ stage[q] = "done" <=> result[q] # "open"
       /\ stage[q] = "swap" => got[q] = << >>

\* README.md:113-117: each request went to the upstream that its path belongs to,
\* Reverb only at or under /app/ and the application for all that no row names.
RoutesBySegment == \A q \in Slots : stage[q] # "free" => out[q].name = Owner(req[q])

\* The origin the browser used.
Browser(r) == Origin(IF r.proto = "" THEN "http" ELSE r.proto, r.host)

\* The references of a kind in a body.
Refs(body, kind) == {body[i].at : i \in {j \in DOMAIN body : body[j].kind = kind}}

\* A page with status 200 that was asked for as a page and came whole takes its
\* assets from where the browser found it, except those that name another dev
\* server than the hot file did when its header came (proxy.go:189): it was
\* rendered before a move.  In any response with status 200 that came whole, the
\* HMR client infers its connection and Echo connects to the public host.  Pages
\* with another status, and pages not asked for as such, keep local addresses:
\* LeftAlone.
PublicReferences ==
  \A q \in Slots : result[q] = "complete" /\ resp[q].status = 200 =>
    /\ req[q].html =>
         Refs(got[q], "asset") \subseteq
           {Browser(req[q])} \cup (Refs(resp[q].body, "asset") \ {rewriter[q].hot})
    /\ Refs(got[q], "hmr") \subseteq {NoOrigin}
    /\ Reverb => Refs(got[q], "echo") \subseteq {Origin("https", req[q].host)}

\* proxy.go:164: what has another status than 200, or came compressed all the same,
\* reaches the browser as the upstream sent it.  For an error page that means that
\* its scripts and styles stay on the dev server's local address.
LeftAlone ==
  \A q \in Slots :
    result[q] = "complete" /\ (resp[q].status # 200 \/ resp[q].encoded)
      => got[q] = resp[q].body

\* The links of whatever came through the mux have the origin the browser used.
PublicLinksThroughMux ==
  \A q \in Slots :
    stage[q] # "free" => Refs(got[q], "link") \subseteq {Browser(req[q])}

\* With the package installed, local environment and loopback, the links of a
\* page that came through the mux have the origin the browser used.
Trusting == Registered /\ Remote \in {"127.0.0.1", "::1"}

PublicLinks == Trusting => PublicLinksThroughMux

\* README.md:141: forwarded headers without the marker stay ignored, in a worker
\* that goes on serving after a visit through the mux.
UnmarkedIgnored == visited \in {NoOrigin, Origin("http", "localhost")}

\* A response broken off upstream is not taken for a whole one, if its length
\* was declared or the mux did not hold it back; and one that came whole is not
\* taken for broken.  A response of undeclared length that was held back is
\* exempt: its read error is known at proxy.go:204 and dropped there, against
\* proxy.go:161 (FailureLeavesUntouched).
CutsShow ==
  \A q \in Slots : stage[q] = "done" /\ ~req[q].head =>
    /\ upstream[q] = "broken" /\ (resp[q].length # -1 \/ rewriter[q].kind = "none")
         => result[q] = "cut"
    /\ upstream[q] = "eof" => result[q] = "complete"

\* A response without end that is not to be rewritten is never held back: what was
\* sent arrives.  A page without end that is to be rewritten is held back until its
\* upstream ends or breaks off, for it is read whole first (proxy.go:188-206).
Streams ==
  \A q \in Slots : \A n \in 1 .. 2 :
    (/\ stage[q] = "stream" \/ (stage[q] \in {"header", "swap"} /\ resp[q].type # "html")
     /\ resp[q].endless /\ Len(sent[q]) >= n)
      ~> (Len(got[q]) >= n \/ stage[q] = "done")

\* A response the upstream is done with ends at the browser too.
Answered ==
  \A q \in Slots :
    (stage[q] \in {"header", "stream", "swap"} /\ upstream[q] # "open")
      ~> stage[q] = "done"

\* proxy.go:161-162: "Any failure leaves the response untouched": a response that is
\* broken off reaches the browser as far as it was sent, and as a broken one.
FailureLeavesUntouched ==
  \A q \in Slots : stage[q] = "done" /\ ~req[q].head /\ upstream[q] = "broken" =>
    result[q] = "cut" /\ got[q] = sent[q]

\* laravel.go:37-40: "the version whose middleware derives URLs from the
\* tunnel's X-Forwarded-* headers, making the APP_URL patch unnecessary".
PatchUnnecessary ==
  ~PatchEnv(NoPatch, ForcePatch, HasTrustedProxyPackage(Lock))
    => PublicLinksThroughMux
============================================================================
