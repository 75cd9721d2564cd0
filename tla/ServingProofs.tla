--------------------------- MODULE ServingProofs ---------------------------
(***************************************************************************)
(* The mux serves each request as its slot says, whatever happens in the   *)
(* other slots: for any number of requests in flight, any requests, any    *)
(* origins of the dev server, with or without Reverb and the Composer      *)
(* package.                                                                *)
(***************************************************************************)
EXTENDS Serving, RoutingProofs, FiniteSetTheorems

----------------------------------------------------------------------------
(* What is known of one slot, as a predicate of what the variables hold for it: *)
(* its stage s, request r and what was sent upstream o, the response a, the     *)
(* rewriter w, what the upstream has sent t and its side u, what the client has *)
(* got g and makes of it e.                                                     *)

Stages == {"free", "sent", "header", "stream", "swap", "done"}

\* STRING, with the members that the provers have to be told of.
Texts == STRING \cup {"", "http", "https", "localhost", "elsewhere"}

Items == [kind : Kinds, at : [scheme : Texts, host : Texts]]

Answers ==
  [status : Nat, type : {"html", "javascript", "text", "event-stream", "websocket"},
   body : Seq(Items), encoded : BOOLEAN, length : Int, endless : BOOLEAN]

Rewriters == [kind : {"none", "client", "reverb", "html"}, hot : HotOrigins \cup {NoOrigin}]

AsksClient(r) == r.path = Subtree("@vite") \o <<"client">>

\* Where a reference of a kind may come from, and what a link says.
ItemOK(r, a, x) ==
  /\ x.kind = "asset" => Route(r) = "app" /\ a.type = "html" /\ x.at # NoOrigin
  /\ x.kind = "hmr" => Route(r) = "vite" /\ AsksClient(r)
  /\ x.kind = "echo" => Route(r) = "vite" /\ ~AsksClient(r) /\ a.type = "javascript"
  /\ x.kind = "link" => Route(r) = "app" /\ (Trusting => x.at = Browser(r))

AnswerOK(r, a) ==
  /\ a \in Answers
  /\ \A i \in 1 .. Len(a.body) : ItemOK(r, a, a.body[i])
  /\ MayRewrite(Route(r), r) => ~a.encoded
  /\ a.length # -1 /\ ~r.head => a.length = Bytes(a.body) /\ a.body # << >>

\* A beginning of a body.
Begins(t, body) ==
  t \in Seq(Items) /\ Len(t) <= Len(body) /\ \A i \in 1 .. Len(t) : t[i] = body[i]

\* What the choice of a rewriter tells of the response, and the other way round.
RewriterOK(r, a, w) ==
  /\ w \in Rewriters
  /\ w.kind \in {"client", "reverb"} => Route(r) = "vite"
  /\ w.kind = "html" => Route(r) = "app"
  /\ a.status # 200 \/ a.encoded => w.kind = "none"
  /\ a.status = 200 /\ ~a.encoded =>
       /\ Route(r) = "vite" /\ AsksClient(r) => w.kind = "client"
       /\ Route(r) = "vite" /\ ~AsksClient(r) /\ Reverb /\ a.type = "javascript"
            => w.kind = "reverb"
       /\ Route(r) = "app" /\ a.type = "html" /\ w.hot # NoOrigin => w.kind = "html"

\* PublicReferences, LeftAlone, PublicLinks and CutsShow for one slot.
ReferencesOK(r, a, w, g) ==
  /\ r.html => Refs(g, "asset") \subseteq
                  {Browser(r)} \cup (Refs(a.body, "asset") \ {w.hot})
  /\ Refs(g, "hmr") \subseteq {NoOrigin}
  /\ Reverb => Refs(g, "echo") \subseteq {Origin("https", r.host)}

AloneOK(a, g, e) ==
  e = "complete" /\ (a.status # 200 \/ a.encoded) => g = a.body

LinksOK(r, g) == Trusting => Refs(g, "link") \subseteq {Browser(r)}

CutOK(a, w, u, e) ==
  /\ u = "broken" /\ (a.length # -1 \/ w.kind = "none") => e = "cut"
  /\ u = "eof" => e = "complete"

SlotOK(s, r, o, a, w, t, u, g, e) ==
  /\ s \in Stages /\ u \in {"open", "eof", "broken"} /\ e \in {"open", "complete", "cut"}
  /\ s = "free" <=> r = << >>
  /\ s = "done" <=> e # "open"
  /\ s # "free" => r \in Requests /\ o = Stamp(r) /\ LinksOK(r, g)
  /\ s \in {"free", "sent", "header", "swap"} => g = << >>
  /\ s \in {"free", "sent"} => u = "open" /\ t = << >>
  /\ s \in {"header", "stream", "swap"} =>
       AnswerOK(r, a) /\ Begins(t, a.body) /\ (u = "eof" => t = a.body)
  /\ s \in {"stream", "swap"} => RewriterOK(r, a, w) /\ (s = "stream" <=> w.kind = "none")
  /\ s = "stream" => Begins(g, a.body)
  /\ s = "done" /\ e = "complete" /\ a.status = 200 => ReferencesOK(r, a, w, g)
  /\ s = "done" => AloneOK(a, g, e)
  /\ s = "done" /\ ~r.head => CutOK(a, w, u, e)

SlotInv(q) ==
  SlotOK(stage[q], req[q], out[q], resp[q], rewriter[q], sent[q], upstream[q], got[q],
         result[q])

SlotDomains ==
  /\ DOMAIN stage = Slots /\ DOMAIN req = Slots /\ DOMAIN out = Slots
  /\ DOMAIN resp = Slots /\ DOMAIN rewriter = Slots /\ DOMAIN sent = Slots
  /\ DOMAIN upstream = Slots /\ DOMAIN got = Slots /\ DOMAIN result = Slots

ServingInv ==
  /\ SlotDomains
  /\ hot \in HotOrigins \cup {NoOrigin}
  /\ trusted \subseteq {"127.0.0.1", "::1"}
  /\ \A q \in Slots : SlotInv(q)
  /\ UnmarkedIgnored

----------------------------------------------------------------------------
(* References and lengths of bodies.                                       *)

LEMMA RefsWithin ==
  ASSUME NEW body, NEW kind, NEW S
  PROVE  Refs(body, kind) \subseteq S <=>
           \A i \in DOMAIN body : body[i].kind = kind => body[i].at \in S
  BY DEF Refs

LEMMA NoRefs ==
  ASSUME NEW kind, NEW S
  PROVE  Refs(<< >>, kind) \subseteq S
  BY DEF Refs

LEMMA BytesOf ==
  /\ Bytes(<< >>) = 0
  /\ \A body \in Seq(Items) :
       Bytes(body) \in Nat /\ (body # << >> => Bytes(body) # 0)
<1>1. ASSUME NEW S, NEW body \in Seq(S)
      PROVE  Bytes(body) \in Nat /\ (body # << >> => Bytes(body) # 0)
  <2> DEFINE secure == {i \in DOMAIN body : body[i].at.scheme = "https"}
  <2>1. PICK n \in Nat : n = Len(body) /\ DOMAIN body = 1 .. n
    BY LenProperties
  <2>2. secure \in SUBSET (1 .. n)
    BY <2>1
  <2>3. IsFiniteSet(1 .. n)
    BY FS_Interval
  <2>4. Cardinality(secure) \in Nat
    BY <2>2, <2>3, FS_Subset, FS_CardinalityType
  <2>5. Bytes(body) = n + Cardinality(secure)
    BY <2>1 DEF Bytes
  <2>6. body # << >> => n # 0
    BY <2>1, NoPiece
  <2> HIDE DEF secure
  <2> QED
    BY <2>4, <2>5, <2>6
<1>2. Bytes(<< >>) = 0
  <2>1. {i \in DOMAIN << >> : << >>[i].at.scheme = "https"} = {}
    OBVIOUS
  <2>2. Len(<< >>) = 0 /\ Cardinality({}) = 0
    BY FS_EmptySet
  <2> QED
    BY <2>1, <2>2 DEF Bytes
<1> QED
  BY <1>1, <1>2

\* A request is one, and not the empty mark of a free slot.
LEMMA RequestIsOne ==
  ASSUME NEW r \in Requests
  PROVE  /\ r # << >> /\ Route(r) = Owner(r) /\ r.html \in BOOLEAN /\ r.head \in BOOLEAN
         /\ r.proto \in STRING /\ r.host \in STRING
         /\ Stamp(r).name = Route(r) /\ Stamp(r).marker = TRUE
         /\ PublicOrigin(Stamp(r)) = Browser(r)
<1>1. /\ r \in [path : Seq(STRING), upgrade : STRING, html : BOOLEAN, head : BOOLEAN,
                proto : STRING, host : STRING]
      /\ IsTarget(r.path)
  BY RequestAssumption
<1>2. r # << >>
  BY <1>1
<1>3. Route(r) = Owner(r)
  BY <1>1, RouteIsOwner
<1>4. /\ Stamp(r).name = Route(r) /\ Stamp(r).marker = TRUE
      /\ PublicOrigin(Stamp(r)) = Browser(r)
  BY DEF Stamp, PublicOrigin, Browser
<1> QED
  BY <1>1, <1>2, <1>3, <1>4

\* What begins like a body has no reference the body has not.
LEMMA BeginsRefs ==
  ASSUME NEW body, NEW t, Begins(t, body), body \in Seq(Items), NEW kind, NEW S,
         \A i \in 1 .. Len(body) : body[i].kind = kind => body[i].at \in S
  PROVE  Refs(t, kind) \subseteq S
<1>1. PICK m \in Nat, n \in Nat :
        m = Len(t) /\ n = Len(body) /\ DOMAIN t = 1 .. m /\ m <= n
  BY LenProperties DEF Begins
<1>2. \A i \in 1 .. m : i \in 1 .. n /\ t[i] = body[i]
  BY <1>1 DEF Begins
<1> QED
  BY <1>1, <1>2, RefsWithin

\* What a rewrite does to each reference.
LEMMA RewrittenItems ==
  ASSUME NEW r \in Requests, NEW w \in Rewriters, w.kind # "none", NEW body \in Seq(Items),
         NEW b, b = Rewritten(w, Stamp(r), body)
  PROVE  /\ DOMAIN b = DOMAIN body
         /\ \A i \in DOMAIN body :
              /\ b[i].kind = body[i].kind
              /\ w.kind = "client" =>
                   b[i].at = IF body[i].kind = "hmr" THEN NoOrigin ELSE body[i].at
              /\ w.kind = "reverb" =>
                   b[i].at = IF body[i].kind = "echo" THEN Origin("https", r.host)
                             ELSE body[i].at
              /\ w.kind = "html" =>
                   b[i].at = IF body[i].at = w.hot THEN Browser(r) ELSE body[i].at
<1>1. w.kind \in {"client", "reverb", "html"}
  BY DEF Rewriters
<1>2. \A i \in DOMAIN body : body[i] \in Items
  BY LenProperties
<1>3. \A x \in Items : \A o :
        [x EXCEPT !.at = o].kind = x.kind /\ [x EXCEPT !.at = o].at = o
  BY DEF Items
<1>4. CASE w.kind = "client"
  <2>1. b = ViteClient(body)
    BY <1>4 DEF Rewritten
  <2> QED
    BY <1>2, <1>3, <1>4, <2>1 DEF ViteClient
<1>5. CASE w.kind = "reverb"
  <2>1. b = ReverbEnv(body, r.host)
    BY <1>5 DEF Rewritten, Stamp
  <2> QED
    BY <1>2, <1>3, <1>5, <2>1 DEF ReverbEnv
<1>6. CASE w.kind = "html"
  <2>1. b = HTML(body, w.hot, Browser(r))
    BY <1>6, RequestIsOne DEF Rewritten
  <2> QED
    BY <1>2, <1>3, <1>6, <2>1 DEF HTML
<1> QED
  BY <1>1, <1>4, <1>5, <1>6

----------------------------------------------------------------------------
(* Bodies that arrive: passed on, or rewritten.                            *)

\* The links of an answer are the browser's; the rewrites leave them so.
LEMMA LinksPassedOn ==
  ASSUME NEW r \in Requests, NEW a, AnswerOK(r, a), NEW g, Begins(g, a.body)
  PROVE  LinksOK(r, g)
<1>1. a.body \in Seq(Items)
  BY DEF AnswerOK, Answers
<1>2. Trusting => \A i \in 1 .. Len(a.body) :
                    a.body[i].kind = "link" => a.body[i].at \in {Browser(r)}
  BY DEF AnswerOK, ItemOK
<1> QED
  BY <1>1, <1>2, BeginsRefs DEF LinksOK

LEMMA LinksRewritten ==
  ASSUME NEW r \in Requests, NEW a, AnswerOK(r, a), NEW w \in Rewriters, w.kind # "none",
         NEW g, g = Rewritten(w, Stamp(r), a.body)
  PROVE  LinksOK(r, g)
<1>1. a.body \in Seq(Items) /\ DOMAIN a.body = 1 .. Len(a.body)
  BY LenProperties DEF AnswerOK, Answers
<1>2. w.kind \in {"client", "reverb", "html"}
  BY DEF Rewriters
<1>3. ASSUME Trusting, NEW i \in DOMAIN g, g[i].kind = "link"
      PROVE  g[i].at = Browser(r)
  <2>1. i \in 1 .. Len(a.body) /\ a.body[i].kind = "link"
    BY <1>1, <1>3, RewrittenItems
  <2>2. a.body[i].at = Browser(r)
    BY <1>3, <2>1 DEF AnswerOK, ItemOK
  <2> QED
    BY <1>1, <1>2, <2>1, <2>2, RewrittenItems
<1> QED
  BY <1>3, RefsWithin DEF LinksOK

\* A body is passed on only if it has no local reference, or none that the hot
\* file told of.
LEMMA ReferencesPassedOn ==
  ASSUME NEW r \in Requests, NEW a, AnswerOK(r, a), NEW w, RewriterOK(r, a, w),
         w.kind = "none", a.status = 200
  PROVE  ReferencesOK(r, a, w, a.body)
<1>1. a.body \in Seq(Items) /\ DOMAIN a.body = 1 .. Len(a.body)
  BY LenProperties DEF AnswerOK, Answers
<1>2. \A i \in DOMAIN a.body : ItemOK(r, a, a.body[i])
  BY <1>1 DEF AnswerOK
<1>3. Route(r) = "vite" => ~a.encoded
  BY DEF AnswerOK, MayRewrite
<1>4. Refs(a.body, "hmr") \subseteq {NoOrigin}
  <2>1. \A i \in DOMAIN a.body : a.body[i].kind # "hmr"
    BY <1>2, <1>3 DEF ItemOK, RewriterOK
  <2> QED
    BY <2>1 DEF Refs
<1>5. Reverb => Refs(a.body, "echo") \subseteq {Origin("https", r.host)}
  <2>1. Reverb => \A i \in DOMAIN a.body : a.body[i].kind # "echo"
    BY <1>2, <1>3 DEF ItemOK, RewriterOK
  <2> QED
    BY <2>1 DEF Refs
<1>6. ASSUME r.html
      PROVE  Refs(a.body, "asset") \subseteq
               {Browser(r)} \cup (Refs(a.body, "asset") \ {w.hot})
  <2>1. SUFFICES ASSUME w.hot \in Refs(a.body, "asset")
                 PROVE  FALSE
    OBVIOUS
  <2>2. PICK i \in DOMAIN a.body : a.body[i].kind = "asset" /\ a.body[i].at = w.hot
    BY <2>1 DEF Refs
  <2>3. Route(r) = "app" /\ a.type = "html" /\ w.hot # NoOrigin
    BY <1>2, <2>2 DEF ItemOK
  <2>4. ~a.encoded
    BY <1>6, <2>3 DEF AnswerOK, MayRewrite
  <2> QED
    BY <2>3, <2>4 DEF RewriterOK
<1> QED
  BY <1>4, <1>5, <1>6 DEF ReferencesOK

LEMMA ReferencesRewritten ==
  ASSUME NEW r \in Requests, NEW a, AnswerOK(r, a), NEW w, RewriterOK(r, a, w),
         w.kind # "none", a.status = 200, NEW g, g = Rewritten(w, Stamp(r), a.body)
  PROVE  ReferencesOK(r, a, w, g)
<1>1. a.body \in Seq(Items) /\ DOMAIN a.body = 1 .. Len(a.body)
  BY LenProperties DEF AnswerOK, Answers
<1>2. \A i \in DOMAIN a.body : ItemOK(r, a, a.body[i])
  BY <1>1 DEF AnswerOK
<1>3. Route(r) = "vite" => ~a.encoded
  BY DEF AnswerOK, MayRewrite
<1>4. w \in Rewriters /\ w.kind \in {"client", "reverb", "html"}
  BY DEF RewriterOK, Rewriters
<1>5. DOMAIN g = DOMAIN a.body /\ \A i \in DOMAIN g : g[i].kind = a.body[i].kind
  BY <1>1, <1>4, RewrittenItems
<1>6. ASSUME NEW i \in DOMAIN g, g[i].kind = "hmr"
      PROVE  g[i].at = NoOrigin
  <2>1. Route(r) = "vite" /\ AsksClient(r)
    BY <1>2, <1>5, <1>6 DEF ItemOK
  <2>2. w.kind = "client"
    BY <1>3, <2>1 DEF RewriterOK
  <2> QED
    BY <1>1, <1>4, <1>5, <1>6, <2>2, RewrittenItems
<1>7. ASSUME Reverb, NEW i \in DOMAIN g, g[i].kind = "echo"
      PROVE  g[i].at = Origin("https", r.host)
  <2>1. Route(r) = "vite" /\ ~AsksClient(r) /\ a.type = "javascript"
    BY <1>2, <1>5, <1>7 DEF ItemOK
  <2>2. w.kind = "reverb"
    BY <1>3, <1>7, <2>1 DEF RewriterOK
  <2> QED
    BY <1>1, <1>4, <1>5, <1>7, <2>2, RewrittenItems
<1>8. ASSUME NEW i \in DOMAIN g, g[i].kind = "asset"
      PROVE  g[i].at \in {Browser(r)} \cup (Refs(a.body, "asset") \ {w.hot})
  <2>1. i \in DOMAIN a.body /\ a.body[i].kind = "asset"
    BY <1>5, <1>8
  <2>2. Route(r) = "app"
    BY <1>2, <2>1 DEF ItemOK
  <2>3. w.kind = "html"
    BY <1>4, <2>2 DEF RewriterOK
  <2>4. g[i].at = IF a.body[i].at = w.hot THEN Browser(r) ELSE a.body[i].at
    BY <1>1, <1>4, <2>1, <2>3, RewrittenItems
  <2>5. a.body[i].at \in Refs(a.body, "asset")
    BY <2>1 DEF Refs
  <2> QED
    BY <2>4, <2>5
<1>9. Refs(g, "hmr") \subseteq {NoOrigin}
  BY <1>6 DEF Refs
<1>10. Reverb => Refs(g, "echo") \subseteq {Origin("https", r.host)}
  BY <1>7 DEF Refs
<1>11. Refs(g, "asset") \subseteq {Browser(r)} \cup (Refs(a.body, "asset") \ {w.hot})
  BY <1>8 DEF Refs
<1> QED
  BY <1>9, <1>10, <1>11 DEF ReferencesOK

----------------------------------------------------------------------------
(* The steps of a slot, on what the variables hold for it.                 *)

LEMMA FreeSlot ==
  ASSUME NEW a, NEW w
  PROVE  SlotOK("free", << >>, << >>, a, w, << >>, "open", << >>, "open")
  BY DEF SlotOK, Stages

LEMMA SentSlot ==
  ASSUME NEW r \in Requests, NEW a, NEW w
  PROVE  SlotOK("sent", r, Stamp(r), a, w, << >>, "open", << >>, "open")
<1>1. LinksOK(r, << >>)
  BY NoRefs DEF LinksOK
<1> QED
  BY <1>1, RequestIsOne DEF SlotOK, Stages

LEMMA BadGatewaySlot ==
  ASSUME NEW r, NEW o, NEW a, NEW w, NEW t, NEW u, NEW g, NEW e, NEW b,
         SlotOK("sent", r, o, a, w, t, u, g, e), b.status = 502, b.body = << >>
  PROVE  SlotOK("done", r, o, b, w, t, u, g, "complete")
  BY DEF SlotOK, Stages, CutOK, AloneOK

LEMMA AnsweredSlot ==
  ASSUME NEW r, NEW o, NEW a, NEW w, NEW t, NEW u, NEW g, NEW e, NEW b,
         SlotOK("sent", r, o, a, w, t, u, g, e), AnswerOK(r, b)
  PROVE  SlotOK("header", r, o, b, w, t, u, g, e)
<1>1. Begins(<< >>, b.body)
  <2>1. b.body \in Seq(Items)
    BY DEF AnswerOK, Answers
  <2>2. Len(b.body) \in Nat /\ << >> \in Seq(Items) /\ Len(<< >>) = 0
    BY <2>1, NoPiece
  <2> QED
    BY <2>2 DEF Begins
<1> QED
  BY <1>1 DEF SlotOK, Stages

LEMMA ChosenSlot ==
  ASSUME NEW r, NEW o, NEW a, NEW w, NEW t, NEW u, NEW g, NEW e, NEW v,
         SlotOK("header", r, o, a, w, t, u, g, e), RewriterOK(r, a, v)
  PROVE  SlotOK(IF v.kind = "none" THEN "stream" ELSE "swap", r, o, a, v, t, u, g, e)
<1>1. g = << >> /\ AnswerOK(r, a)
  BY DEF SlotOK
<1>2. Begins(g, a.body)
  <2>1. a.body \in Seq(Items)
    BY <1>1 DEF AnswerOK, Answers
  <2>2. Len(a.body) \in Nat /\ << >> \in Seq(Items) /\ Len(<< >>) = 0
    BY <2>1, NoPiece
  <2> QED
    BY <1>1, <2>2 DEF Begins
<1>3. CASE v.kind = "none"
  BY <1>2, <1>3 DEF SlotOK, Stages
<1>4. CASE v.kind # "none"
  BY <1>4 DEF SlotOK, Stages
<1> QED
  BY <1>3, <1>4

\* More of the body has been sent, or all of it has, or the upstream is gone.
LEMMA SendingSlot ==
  ASSUME NEW s, NEW r, NEW o, NEW a, NEW w, NEW t, NEW u, NEW g, NEW e, NEW x, NEW v,
         SlotOK(s, r, o, a, w, t, u, g, e), s \in {"header", "stream", "swap"},
         Begins(x, a.body), v \in {"open", "eof", "broken"}, v = "eof" => x = a.body
  PROVE  SlotOK(s, r, o, a, w, x, v, g, e)
  BY DEF SlotOK, Stages

LEMMA ForwardedSlot ==
  ASSUME NEW r, NEW o, NEW a, NEW w, NEW t, NEW u, NEW g, NEW e,
         SlotOK("stream", r, o, a, w, t, u, g, e)
  PROVE  SlotOK("stream", r, o, a, w, t, u, t, e)
<1>1. r \in Requests /\ AnswerOK(r, a) /\ Begins(t, a.body)
  BY DEF SlotOK
<1>2. LinksOK(r, t)
  BY <1>1, LinksPassedOn
<1> QED
  BY <1>1, <1>2 DEF SlotOK, Stages

\* What the server makes of a body b, sent with a length of n.
Verdict(r, b, n) == IF n \in {-1, Bytes(b)} \/ r.head THEN "complete" ELSE "cut"

LEMMA StreamedSlot ==
  ASSUME NEW r, NEW o, NEW a, NEW w, NEW t, NEW g, NEW e,
         SlotOK("stream", r, o, a, w, t, "eof", g, e), g = t,
         NEW b, b = [a EXCEPT !.length = a.length]
  PROVE  SlotOK("done", r, o, b, w, t, "eof", g, Verdict(r, g, a.length))
<1>1. /\ r \in Requests /\ LinksOK(r, g) /\ AnswerOK(r, a) /\ g = a.body /\ t = a.body
      /\ RewriterOK(r, a, w) /\ w.kind = "none" /\ r # << >>
  BY DEF SlotOK
<1>2. b = a
  BY <1>1 DEF AnswerOK, Answers
<1>3. ~r.head => Verdict(r, g, a.length) = "complete"
  BY <1>1 DEF AnswerOK, Verdict
<1>4. a.status = 200 => ReferencesOK(r, a, w, g)
  BY <1>1, ReferencesPassedOn
<1>5. ~r.head => CutOK(a, w, "eof", Verdict(r, g, a.length))
  BY <1>3 DEF CutOK
<1>6. Verdict(r, g, a.length) \in {"complete", "cut"}
  BY DEF Verdict
<1>7. AloneOK(a, g, Verdict(r, g, a.length))
  BY <1>1 DEF AloneOK
<1> QED
  BY <1>1, <1>2, <1>4, <1>5, <1>6, <1>7 DEF SlotOK, Stages

LEMMA BrokenStreamSlot ==
  ASSUME NEW r, NEW o, NEW a, NEW w, NEW t, NEW g, NEW e,
         SlotOK("stream", r, o, a, w, t, "broken", g, e)
  PROVE  SlotOK("done", r, o, a, w, t, "broken", g, "cut")
  BY DEF SlotOK, Stages, CutOK, AloneOK

LEMMA SwappedSlot ==
  ASSUME NEW r, NEW o, NEW a, NEW w, NEW t, NEW g, NEW e,
         SlotOK("swap", r, o, a, w, t, "eof", g, e),
         NEW x, x = Rewritten(w, o, t), NEW b, b = [a EXCEPT !.length = Bytes(x)]
  PROVE  SlotOK("done", r, o, b, w, t, "eof", x, Verdict(r, x, Bytes(x)))
<1>1. /\ r \in Requests /\ AnswerOK(r, a) /\ t = a.body /\ o = Stamp(r)
      /\ RewriterOK(r, a, w) /\ w.kind # "none" /\ r # << >> /\ w \in Rewriters
  BY DEF SlotOK, RewriterOK
<1>2. b.status = a.status /\ b.body = a.body
  BY <1>1 DEF AnswerOK, Answers
<1>3. Verdict(r, x, Bytes(x)) = "complete"
  BY DEF Verdict
<1>4. LinksOK(r, x)
  BY <1>1, LinksRewritten
<1>5. b.status = 200 => ReferencesOK(r, b, w, x)
  <2>1. b.status = 200 => ReferencesOK(r, a, w, x)
    BY <1>1, <1>2, ReferencesRewritten
  <2> QED
    BY <1>2, <2>1 DEF ReferencesOK
<1>6. CutOK(b, w, "eof", "complete")
  BY DEF CutOK
<1>7. AloneOK(b, x, "complete")
  <2>1. a.status = 200 /\ ~a.encoded
    BY <1>1 DEF RewriterOK
  <2>2. b.encoded = a.encoded
    BY <1>1 DEF AnswerOK, Answers
  <2> QED
    BY <1>2, <2>1, <2>2 DEF AloneOK
<1> QED
  BY <1>1, <1>3, <1>4, <1>5, <1>6, <1>7 DEF SlotOK, Stages

\* An emptied body is too short for any length that was declared.
LEMMA EmptiedSlot ==
  ASSUME NEW r, NEW o, NEW a, NEW w, NEW t, NEW g, NEW e,
         SlotOK("swap", r, o, a, w, t, "broken", g, e),
         NEW b, b = [a EXCEPT !.length = a.length]
  PROVE  SlotOK("done", r, o, b, w, t, "broken", << >>, Verdict(r, << >>, a.length))
<1>1. /\ r \in Requests /\ AnswerOK(r, a) /\ o = Stamp(r)
      /\ RewriterOK(r, a, w) /\ w.kind # "none" /\ r # << >>
  BY DEF SlotOK
<1>2. b = a
  BY <1>1 DEF AnswerOK, Answers
<1>3. LinksOK(r, << >>) /\ ReferencesOK(r, a, w, << >>)
  BY NoRefs DEF LinksOK, ReferencesOK
<1>4. ~r.head => CutOK(a, w, "broken", Verdict(r, << >>, a.length))
  <2> SUFFICES ASSUME ~r.head, a.length # -1
               PROVE  Verdict(r, << >>, a.length) = "cut"
    BY <1>1 DEF CutOK
  <2>1. a.body \in Seq(Items) /\ a.body # << >> /\ a.length = Bytes(a.body)
    BY <1>1 DEF AnswerOK, Answers
  <2>2. a.length # 0
    BY <2>1, BytesOf
  <2> QED
    BY <2>2, BytesOf DEF Verdict
<1>5. Verdict(r, << >>, a.length) \in {"complete", "cut"}
  BY DEF Verdict
<1>6. AloneOK(a, << >>, Verdict(r, << >>, a.length))
  BY <1>1 DEF RewriterOK, AloneOK
<1> QED
  BY <1>1, <1>2, <1>3, <1>4, <1>5, <1>6 DEF SlotOK, Stages

----------------------------------------------------------------------------
(* What the upstreams answer.                                              *)

\* A response before it is compressed or, for HEAD, stripped of its body.
Rendered(r, x) ==
  /\ x \in Answers
  /\ \A i \in 1 .. Len(x.body) : ItemOK(r, x, x.body[i])
  /\ x.length # -1 => x.length = Bytes(x.body) /\ x.body # << >>

LEMMA SentAnswer ==
  ASSUME NEW r \in Requests, NEW x, Rendered(r, x), NEW zip,
         zip \in {FALSE, ~MayRewrite(Route(r), r)},
         NEW b, b = AsSent(x, r.head, zip)
  PROVE  AnswerOK(r, b)
<1>1. zip \in BOOLEAN /\ (MayRewrite(Route(r), r) => ~zip)
  BY RequestIsOne DEF MayRewrite
<1>2. << >> \in Seq(Items) /\ Len(<< >>) = 0
  BY EmptySeq
<1>3. /\ b \in Answers /\ b.encoded = zip /\ b.type = x.type /\ b.length = x.length
      /\ b.body = IF r.head THEN << >> ELSE x.body
  BY <1>1, <1>2 DEF AsSent, Rendered, Answers
<1>4. \A i \in 1 .. Len(b.body) : ItemOK(r, b, b.body[i])
  <2>1. CASE r.head
    BY <1>2, <1>3, <2>1
  <2>2. CASE ~r.head
    BY <1>3, <2>2 DEF Rendered, ItemOK
  <2> QED
    BY <2>1, <2>2
<1> QED
  BY <1>1, <1>3, <1>4 DEF AnswerOK, Rendered

LEMMA PlainRendered ==
  ASSUME NEW r, NEW status \in Nat, NEW body \in Seq(Items),
         NEW type \in {"html", "javascript", "text", "event-stream", "websocket"},
         \A i \in 1 .. Len(body) : ItemOK(r, Response(status, type, body), body[i])
  PROVE  /\ Rendered(r, Response(status, type, body))
         /\ Response(status, type, body).body = body
         /\ Response(status, type, body).type = type
<1>0. PICK x : x = Response(status, type, body)
  OBVIOUS
<1>1. /\ x.body = body /\ x.type = type /\ x.length = -1 /\ x.encoded = FALSE
      /\ x.endless = FALSE /\ x.status = status
  BY <1>0 DEF Response
<1>2. x \in Answers
  BY <1>0 DEF Response, Answers
<1>3. \A i \in 1 .. Len(x.body) : ItemOK(r, x, x.body[i])
  BY <1>0, <1>1
<1> QED
  BY <1>0, <1>1, <1>2, <1>3 DEF Rendered

LEMMA FramedRendered ==
  ASSUME NEW r, NEW x, Rendered(r, x), x.body # << >>
  PROVE  Rendered(r, Framed(x, Bytes(x.body)))
<1>1. Bytes(x.body) \in Int
  BY BytesOf DEF Rendered, Answers
<1> QED
  BY <1>1 DEF Rendered, Framed, Answers, ItemOK

LEMMA EndlessRendered ==
  ASSUME NEW r, NEW x, Rendered(r, x)
  PROVE  Rendered(r, Endless(x))
  BY DEF Rendered, Endless, Answers, ItemOK

\* Bodies of one reference and of two.
LEMMA SmallBodies ==
  ASSUME NEW x \in Items, NEW y \in Items
  PROVE  /\ << x >> \in Seq(Items) /\ << x >> # << >>
         /\ \A i \in 1 .. Len(<< x >>) : << x >>[i] = x
         /\ << x, y >> \in Seq(Items) /\ << x, y >> # << >>
         /\ \A i \in 1 .. Len(<< x, y >>) : << x, y >>[i] \in {x, y}
         /\ << >> \o << x >> = << x >> /\ << x >> \o << y >> = << x, y >>
<1>1. << x >> \in Seq(Items) /\ << y >> \in Seq(Items) /\ Len(<< x >>) = 1
  OBVIOUS
<1>2. << >> \o << x >> = << x >>
  BY <1>1, ConcatEmptySeq
<1>3. << x >> \o << y >> = << x, y >>
  <2>1. PICK s \in Seq(Items) : s = << x >> \o << y >>
    BY <1>1, ConcatProperties
  <2>2. Len(s) = 2 /\ s[1] = x /\ s[2] = y
    BY <1>1, <2>1
  <2>3. s = << x, y >>
    BY <2>2, TwoPieces
  <2> QED
    BY <2>1, <2>3, Zenon
<1>4. << x, y >> \in Seq(Items) /\ Len(<< x, y >>) = 2
  OBVIOUS
<1> QED
  BY <1>1, <1>2, <1>3, <1>4

Origins == [scheme : Texts, host : Texts]

LEMMA OriginTypes ==
  /\ NoOrigin \in Origins /\ Origin("http", "localhost") \in Origins
  /\ \A o \in HotOrigins \cup {NoOrigin} : o \in Origins
  /\ \A kind \in Kinds : \A at \in Origins :
       /\ Ref(kind, at) \in Items
       /\ Ref(kind, at).kind = kind /\ Ref(kind, at).at = at
  /\ Text \in Items /\ Text.kind = "text"
  /\ {"asset", "link", "hmr", "echo", "text"} = Kinds
<1>1. NoOrigin \in Origins /\ Origin("http", "localhost") \in Origins
  BY DEF Origins, Origin, NoOrigin, Texts
<1>2. \A o \in HotOrigins \cup {NoOrigin} : o \in Origins
  <2>1. \A o \in HotOrigins : o \in [scheme : STRING, host : STRING]
    BY HotAssumption
  <2>2. \A o \in [scheme : STRING, host : STRING] : o \in Origins
    BY DEF Origins, Texts
  <2> QED
    BY <1>1, <2>1, <2>2
<1>3. {"asset", "link", "hmr", "echo", "text"} = Kinds
  BY DEF Kinds
<1>4. Items = [kind : Kinds, at : Origins]
  BY DEF Items, Origins
<1>5. \A kind \in Kinds : \A at \in Origins :
        /\ Ref(kind, at) \in Items
        /\ Ref(kind, at).kind = kind /\ Ref(kind, at).at = at
  BY <1>4 DEF Ref
<1>6. Text \in Items /\ Text.kind = "text"
  <2>1. Text = Ref("text", NoOrigin) /\ "text" \in Kinds
    BY <1>3 DEF Text
  <2> QED
    BY <1>1, <1>5, <2>1
<1> QED
  BY <1>1, <1>2, <1>3, <1>5, <1>6

\* A feed, a websocket, and what an upstream does not have.
LEMMA TextAnswers ==
  ASSUME NEW r
  PROVE  /\ Rendered(r, Response(404, "text", << Text >>))
         /\ Rendered(r, Endless(Response(200, "event-stream", << Text, Text >>)))
         /\ AnswerOK(r, Response(404, "text", << Text >>)) /\ AnswerOK(r, Upgraded)
<1>1. Text \in Items /\ \A a : ItemOK(r, a, Text)
  BY OriginTypes DEF ItemOK
<1>2. /\ << Text >> \in Seq(Items) /\ << Text, Text >> \in Seq(Items)
      /\ \A i \in 1 .. Len(<< Text >>) : << Text >>[i] = Text
      /\ \A i \in 1 .. Len(<< Text, Text >>) : << Text, Text >>[i] = Text
  BY <1>1, SmallBodies
<1>3. ASSUME NEW body \in Seq(Items), \A i \in 1 .. Len(body) : body[i] = Text
      PROVE  /\ Rendered(r, Response(404, "text", body))
             /\ Rendered(r, Endless(Response(101, "websocket", body)))
             /\ Rendered(r, Endless(Response(200, "event-stream", body)))
             /\ AnswerOK(r, Response(404, "text", body))
             /\ AnswerOK(r, Endless(Response(101, "websocket", body)))
  <2>1. \A a : \A i \in 1 .. Len(body) : ItemOK(r, a, body[i])
    BY <1>1, <1>3
  <2>2. /\ Rendered(r, Response(404, "text", body))
        /\ Rendered(r, Response(101, "websocket", body))
        /\ Rendered(r, Response(200, "event-stream", body))
    <3>1. {404, 101, 200} \subseteq Nat
      OBVIOUS
    <3>2. \A status \in {404, 101, 200} :
            \A type \in {"text", "websocket", "event-stream"} :
              Rendered(r, Response(status, type, body))
      <4> SUFFICES ASSUME NEW status \in {404, 101, 200},
                          NEW type \in {"text", "websocket", "event-stream"}
                   PROVE  Rendered(r, Response(status, type, body))
        OBVIOUS
      <4>1. status \in Nat
        BY <3>1
      <4>2. \A i \in 1 .. Len(body) : ItemOK(r, Response(status, type, body), body[i])
        <5> DEFINE answer == Response(status, type, body)
        <5> HIDE DEF answer
        <5>1. \A i \in 1 .. Len(body) : ItemOK(r, answer, body[i])
          BY <2>1
        <5> QED
          BY <5>1 DEF answer
      <4> QED
        BY <4>1, <4>2, PlainRendered
    <3> QED
      BY <3>2
  <2>3. /\ Rendered(r, Endless(Response(101, "websocket", body)))
        /\ Rendered(r, Endless(Response(200, "event-stream", body)))
    BY <2>2, EndlessRendered
  <2>4. \A x : Rendered(r, x) /\ x.encoded = FALSE /\ x.length = -1 => AnswerOK(r, x)
    BY DEF AnswerOK, Rendered
  <2>5. /\ AnswerOK(r, Response(404, "text", body))
        /\ AnswerOK(r, Endless(Response(101, "websocket", body)))
    BY <2>2, <2>3, <2>4 DEF Endless, Response
  <2> QED
    BY <2>2, <2>3, <2>5
<1> DEFINE one == << Text >>
           two == << Text, Text >>
<1>4. /\ one \in Seq(Items) /\ two \in Seq(Items)
      /\ \A i \in 1 .. Len(one) : one[i] = Text
      /\ \A i \in 1 .. Len(two) : two[i] = Text
  BY <1>2, Zenon
<1> HIDE DEF one, two
<1>5. /\ Rendered(r, Response(404, "text", one)) /\ AnswerOK(r, Response(404, "text", one))
      /\ AnswerOK(r, Endless(Response(101, "websocket", two)))
  BY <1>3, <1>4
<1>6. Rendered(r, Endless(Response(200, "event-stream", two)))
  BY <1>3, <1>4
<1>7. Upgraded = Endless(Response(101, "websocket", two))
  BY DEF Upgraded, two
<1> QED
  BY <1>5, <1>6, <1>7, Zenon DEF one, two

\* The page, the error page, the redirect and the feed of the application.
LEMMA AppAnswers ==
  ASSUME hot \in HotOrigins \cup {NoOrigin}, NEW r \in Requests, Route(r) = "app",
         NEW link \in Origins, Trusting => link = Browser(r),
         NEW x \in AppResponses(link)
  PROVE  Rendered(r, x)
<1> DEFINE body == (IF hot = NoOrigin THEN << >> ELSE << Ref("asset", hot) >>)
                     \o << Ref("link", link) >>
           only == << Ref("link", link) >>
           page == Response(200, "html", body)
           feed == Response(200, "event-stream", << Text, Text >>)
<1>1. /\ hot \in Origins /\ Ref("asset", hot) \in Items /\ Ref("link", link) \in Items
      /\ Ref("asset", hot).kind = "asset" /\ Ref("asset", hot).at = hot
      /\ Ref("link", link).kind = "link" /\ Ref("link", link).at = link
      /\ Text \in Items /\ Text.kind = "text"
  <2>1. "asset" \in Kinds /\ "link" \in Kinds
    BY OriginTypes
  <2>2. hot \in Origins
    BY OriginTypes, Zenon
  <2> QED
    BY <2>1, <2>2, OriginTypes, Zenon
<1>2. body \in Seq(Items) /\ body # << >> /\ only \in Seq(Items) /\ only # << >>
  BY <1>1, SmallBodies
<1>3. \A a : a.type = "html" =>
        /\ \A i \in 1 .. Len(body) : ItemOK(r, a, body[i])
        /\ \A i \in 1 .. Len(only) : ItemOK(r, a, only[i])
  <2>1. \A i \in 1 .. Len(only) : only[i] = Ref("link", link)
    BY <1>1, SmallBodies
  <2>2. \A i \in 1 .. Len(body) :
          \/ body[i] = Ref("link", link)
          \/ body[i] = Ref("asset", hot) /\ hot # NoOrigin
    BY <1>1, SmallBodies
  <2>3. \A a : a.type = "html" =>
          /\ ItemOK(r, a, Ref("link", link))
          /\ hot # NoOrigin => ItemOK(r, a, Ref("asset", hot))
    BY <1>1 DEF ItemOK
  <2> HIDE DEF body, only
  <2> QED
    BY <2>1, <2>2, <2>3
<1> HIDE DEF body, only
<1>4. \A status \in Nat : \A b \in {body, only} :
        Rendered(r, Response(status, "html", b)) /\ Response(status, "html", b).body = b
  <2> SUFFICES ASSUME NEW status \in Nat, NEW b \in {body, only},
                      NEW a, a = Response(status, "html", b)
               PROVE  Rendered(r, a) /\ a.body = b
    OBVIOUS
  <2>1. a.type = "html" /\ b \in Seq(Items)
    BY <1>2 DEF Response
  <2>2. \A i \in 1 .. Len(b) : ItemOK(r, a, b[i])
    BY <1>3, <2>1
  <2> QED
    <3>1. \A i \in 1 .. Len(b) : ItemOK(r, Response(status, "html", b), b[i])
      BY <2>2
    <3>2. b \in Seq(Items)
      BY <2>1
    <3> HIDE DEF body, only
    <3>3. Rendered(r, Response(status, "html", b)) /\ Response(status, "html", b).body = b
      BY <3>1, <3>2, PlainRendered
    <3> QED
      BY <3>3
<1>5. Rendered(r, page) /\ page.body = body
  BY <1>4
<1>6. Rendered(r, Framed(page, Bytes(body)))
  BY <1>2, <1>5, FramedRendered
<1>7. Rendered(r, Endless(feed)) /\ Rendered(r, Endless(page))
  BY <1>5, EndlessRendered, TextAnswers
<1>8. x \in {page, Framed(page, Bytes(body)), Endless(page), Response(500, "html", body),
              Response(302, "html", only), Endless(feed)}
  BY DEF AppResponses, body, only
<1> HIDE DEF page, feed
<1> QED
  BY <1>4, <1>5, <1>6, <1>7, <1>8

\* The HMR client, a module, and what the dev server does not have.
LEMMA ViteAnswers ==
  ASSUME NEW r \in Requests, Route(r) = "vite", NEW x \in ViteResponses(r)
  PROVE  Rendered(r, x)
<1> DEFINE local == Origin("http", "localhost")
           baked == << Ref("hmr", local), Text >>
           module == << Ref("echo", local), Text >>
<1>1. /\ Ref("hmr", local) \in Items /\ Ref("hmr", local).kind = "hmr"
      /\ Ref("echo", local) \in Items /\ Ref("echo", local).kind = "echo"
      /\ Text \in Items /\ Text.kind = "text"
  BY OriginTypes DEF Kinds
<1>2. /\ baked \in Seq(Items) /\ baked # << >> /\ module \in Seq(Items) /\ module # << >>
      /\ << Text >> \in Seq(Items)
      /\ \A i \in 1 .. Len(baked) : baked[i] \in {Ref("hmr", local), Text}
      /\ \A i \in 1 .. Len(module) : module[i] \in {Ref("echo", local), Text}
      /\ \A i \in 1 .. Len(<< Text >>) : << Text >>[i] = Text
  BY <1>1, SmallBodies
<1>3. /\ \A a : ItemOK(r, a, Text)
      /\ AsksClient(r) => \A a : ItemOK(r, a, Ref("hmr", local))
      /\ ~AsksClient(r) => \A a : a.type = "javascript" => ItemOK(r, a, Ref("echo", local))
  BY <1>1 DEF ItemOK
<1> HIDE DEF local, baked, module
<1>4. CASE AsksClient(r)
  <2> DEFINE client == Response(200, "javascript", baked)
  <2>1. Rendered(r, client) /\ client.body = baked
    <3>1. \A i \in 1 .. Len(baked) : ItemOK(r, client, baked[i])
      BY <1>2, <1>3, <1>4
    <3>2. 200 \in Nat
      OBVIOUS
    <3> QED
      BY <1>2, <3>1, <3>2, PlainRendered
  <2>2. x = Framed(client, Bytes(client.body))
    BY <1>4 DEF ViteResponses, AsksClient, baked, local
  <2> QED
    BY <1>2, <2>1, <2>2, FramedRendered
<1>5. CASE ~AsksClient(r)
  <2> DEFINE found == Response(200, "javascript", module)
             missing == Response(404, "text", << Text >>)
  <2>1. Rendered(r, found) /\ found.body = module
    <3>1. found.type = "javascript"
      BY DEF Response
    <3>2. \A i \in 1 .. Len(module) : ItemOK(r, found, module[i])
      BY <1>2, <1>3, <1>5, <3>1
    <3> QED
      BY <1>2, <3>2, PlainRendered
  <2>2. Rendered(r, missing)
    BY TextAnswers
  <2>3. x \in {Framed(found, Bytes(found.body)), missing}
    BY <1>5 DEF ViteResponses, AsksClient, module, local
  <2> QED
    BY <1>2, <2>1, <2>2, <2>3, FramedRendered
<1> QED
  BY <1>4, <1>5

----------------------------------------------------------------------------
(* The steps.                                                              *)

\* Only the slot q changes.
Touches(q) ==
  \A p \in Slots \ {q} :
    /\ stage'[p] = stage[p] /\ req'[p] = req[p] /\ out'[p] = out[p]
    /\ resp'[p] = resp[p] /\ rewriter'[p] = rewriter[p] /\ sent'[p] = sent[p]
    /\ upstream'[p] = upstream[p] /\ got'[p] = got[p] /\ result'[p] = result[p]

StepOK(q) == Touches(q) /\ SlotDomains' /\ SlotInv(q)'

LEMMA ArriveStep ==
  ASSUME SlotDomains, NEW q \in Slots, SlotInv(q), Arrive(q)
  PROVE  StepOK(q)
<1>1. Touches(q) /\ SlotDomains'
  BY DEF Arrive, Touches, SlotDomains
<1>2. PICK r \in Requests :
        /\ stage'[q] = "sent" /\ req'[q] = r /\ out'[q] = Stamp(r)
        /\ resp'[q] = resp[q] /\ rewriter'[q] = rewriter[q] /\ sent'[q] = << >>
        /\ upstream'[q] = "open" /\ got'[q] = << >> /\ result'[q] = "open"
  BY DEF Arrive, SlotDomains, SlotInv, SlotOK
<1>3. SlotOK("sent", r, Stamp(r), resp[q], rewriter[q], << >>, "open", << >>, "open")
  BY SentSlot
<1>4. SlotInv(q)'
  BY <1>2, <1>3 DEF SlotInv
<1> QED
  BY <1>1, <1>4 DEF StepOK

LEMMA BadGatewayStep ==
  ASSUME SlotDomains, NEW q \in Slots, SlotInv(q), BadGateway(q)
  PROVE  StepOK(q)
<1>1. Touches(q) /\ SlotDomains'
  BY DEF BadGateway, Touches, SlotDomains
<1>2. PICK b :
        /\ b.status = 502 /\ b.body = << >> /\ stage[q] = "sent"
        /\ stage'[q] = "done" /\ req'[q] = req[q] /\ out'[q] = out[q]
        /\ resp'[q] = b /\ rewriter'[q] = rewriter[q] /\ sent'[q] = sent[q]
        /\ upstream'[q] = upstream[q] /\ got'[q] = got[q] /\ result'[q] = "complete"
  BY DEF BadGateway, SlotDomains
<1>3. SlotInv(q)'
  BY <1>2, BadGatewaySlot DEF SlotInv
<1> QED
  BY <1>1, <1>3 DEF StepOK

LEMMA CloseStep ==
  ASSUME SlotDomains, NEW q \in Slots, SlotInv(q), Close(q)
  PROVE  StepOK(q)
<1>1. Touches(q) /\ SlotDomains'
  BY DEF Close, Touches, SlotDomains
<1>2. /\ stage'[q] = "free" /\ req'[q] = << >> /\ out'[q] = << >> /\ resp'[q] = << >>
      /\ rewriter'[q] = << >> /\ sent'[q] = << >> /\ upstream'[q] = "open"
      /\ got'[q] = << >> /\ result'[q] = "open"
  BY DEF Close, SlotDomains
<1>3. SlotInv(q)'
  BY <1>2, FreeSlot DEF SlotInv
<1> QED
  BY <1>1, <1>3 DEF StepOK

\* The choice of the rewriter is the one RewriterOK describes.
LEMMA ModifyResponseStep ==
  ASSUME SlotDomains, NEW q \in Slots, SlotInv(q), ModifyResponse(q),
         hot \in HotOrigins \cup {NoOrigin}
  PROVE  StepOK(q)
<1>1. Touches(q) /\ SlotDomains'
  BY DEF ModifyResponse, Touches, SlotDomains
<1>2. PICK w :
        /\ w = [kind |-> Rewriter(q), hot |-> hot] /\ stage[q] = "header"
        /\ stage'[q] = (IF w.kind = "none" THEN "stream" ELSE "swap")
        /\ req'[q] = req[q] /\ out'[q] = out[q]
        /\ resp'[q] = resp[q] /\ rewriter'[q] = w /\ sent'[q] = sent[q]
        /\ upstream'[q] = upstream[q] /\ got'[q] = got[q] /\ result'[q] = result[q]
  BY DEF ModifyResponse, SlotDomains
<1>3. /\ req[q] \in Requests /\ out[q] = Stamp(req[q])
      /\ out[q].name = Route(req[q])
  BY <1>2, RequestIsOne DEF SlotInv, SlotOK
<1>4. RewriterOK(req[q], resp[q], w)
  <2>1. w.kind = Rewriter(q) /\ w.hot = hot
    BY <1>2
  <2>2. w.kind \in {"none", "client", "reverb", "html"}
    BY <2>1 DEF Rewriter
  <2>3. w \in Rewriters
    BY <1>2, <2>1, <2>2 DEF Rewriters
  <2>4. /\ w.kind \in {"client", "reverb"} => Route(req[q]) = "vite"
        /\ w.kind = "html" => Route(req[q]) = "app"
    BY <1>3, <2>1 DEF Rewriter
  <2>5. ASSUME resp[q].status = 200, ~resp[q].encoded
        PROVE  /\ Route(req[q]) = "vite" /\ AsksClient(req[q]) => w.kind = "client"
               /\ Route(req[q]) = "vite" /\ ~AsksClient(req[q]) /\ Reverb
                    /\ resp[q].type = "javascript" => w.kind = "reverb"
               /\ Route(req[q]) = "app" /\ resp[q].type = "html" /\ w.hot # NoOrigin
                    => w.kind = "html"
    BY <1>3, <2>1, <2>5 DEF Rewriter, AsksClient
  <2>6. resp[q].status # 200 \/ resp[q].encoded => w.kind = "none"
    BY <2>1 DEF Rewriter
  <2> QED
    BY <2>3, <2>4, <2>5, <2>6 DEF RewriterOK
<1>5. SlotInv(q)'
  BY <1>2, <1>4, ChosenSlot DEF SlotInv
<1> QED
  BY <1>1, <1>5 DEF StepOK

LEMMA ForwardStep ==
  ASSUME SlotDomains, NEW q \in Slots, SlotInv(q), Forward(q)
  PROVE  StepOK(q)
<1>1. Touches(q) /\ SlotDomains'
  BY DEF Forward, Touches, SlotDomains
<1>2. /\ stage[q] = "stream" /\ stage'[q] = "stream" /\ req'[q] = req[q]
      /\ out'[q] = out[q] /\ resp'[q] = resp[q] /\ rewriter'[q] = rewriter[q]
      /\ sent'[q] = sent[q] /\ upstream'[q] = upstream[q] /\ got'[q] = sent[q]
      /\ result'[q] = result[q]
  BY DEF Forward, SlotDomains
<1>3. SlotInv(q)'
  BY <1>2, ForwardedSlot DEF SlotInv
<1> QED
  BY <1>1, <1>3 DEF StepOK

LEMMA DeliverSlot ==
  ASSUME SlotDomains, NEW q \in Slots, NEW body, NEW length, Deliver(q, body, length)
  PROVE  /\ stage'[q] = "done" /\ got'[q] = body
         /\ resp'[q] = [resp[q] EXCEPT !.length = length]
         /\ result'[q] = Verdict(req[q], body, length)
  BY DEF Deliver, SlotDomains, Verdict

LEMMA DeliverTouches ==
  ASSUME SlotDomains, NEW q \in Slots, NEW body, NEW length, Deliver(q, body, length),
         UNCHANGED <<req, out, rewriter, sent, upstream>>
  PROVE  Touches(q) /\ SlotDomains'
  BY DEF Deliver, SlotDomains, Touches

LEMMA StreamEndsStep ==
  ASSUME SlotDomains, NEW q \in Slots, SlotInv(q), StreamEnds(q)
  PROVE  StepOK(q)
<1>1. /\ stage[q] = "stream" /\ got[q] = sent[q]
      /\ UNCHANGED <<req, out, rewriter, sent, upstream>>
  BY DEF StreamEnds
<1>2. CASE upstream[q] = "eof" /\ Deliver(q, got[q], resp[q].length)
  <2>1. Touches(q) /\ SlotDomains'
    BY <1>1, <1>2, DeliverTouches
  <2>2. /\ stage'[q] = "done" /\ got'[q] = got[q]
        /\ resp'[q] = [resp[q] EXCEPT !.length = resp[q].length]
        /\ result'[q] = Verdict(req[q], got[q], resp[q].length)
    BY <1>2, DeliverSlot
  <2>3. SlotOK("stream", req[q], out[q], resp[q], rewriter[q], sent[q], "eof", got[q],
               result[q])
    BY <1>1, <1>2 DEF SlotInv
  <2>4. SlotOK("done", req[q], out[q], resp'[q], rewriter[q], sent[q], "eof", got[q],
               Verdict(req[q], got[q], resp[q].length))
    BY <1>1, <2>2, <2>3, StreamedSlot
  <2>5. SlotInv(q)'
    BY <1>1, <1>2, <2>2, <2>4 DEF SlotInv
  <2> QED
    BY <2>1, <2>5 DEF StepOK
<1>3. CASE /\ upstream[q] = "broken" /\ stage' = [stage EXCEPT ![q] = "done"]
           /\ result' = [result EXCEPT ![q] = "cut"] /\ UNCHANGED <<resp, got>>
  <2>1. Touches(q) /\ SlotDomains' /\ stage'[q] = "done" /\ result'[q] = "cut"
    BY <1>1, <1>3 DEF Touches, SlotDomains
  <2>2. SlotInv(q)'
    BY <1>1, <1>3, <2>1, BrokenStreamSlot DEF SlotInv
  <2> QED
    BY <2>1, <2>2 DEF StepOK
<1> QED
  BY <1>2, <1>3 DEF StreamEnds

LEMMA SwapBodyStep ==
  ASSUME SlotDomains, NEW q \in Slots, SlotInv(q), SwapBody(q)
  PROVE  StepOK(q)
<1>1. stage[q] = "swap" /\ UNCHANGED <<req, out, rewriter, sent, upstream>>
  BY DEF SwapBody
<1> DEFINE body == Rewritten(rewriter[q], out[q], sent[q])
<1>2. CASE upstream[q] = "eof" /\ Deliver(q, body, Bytes(body))
  <2>1. Touches(q) /\ SlotDomains'
    BY <1>1, <1>2, DeliverTouches
  <2>2. /\ stage'[q] = "done" /\ got'[q] = body
        /\ resp'[q] = [resp[q] EXCEPT !.length = Bytes(body)]
        /\ result'[q] = Verdict(req[q], body, Bytes(body))
    BY <1>2, DeliverSlot
  <2>3. SlotOK("swap", req[q], out[q], resp[q], rewriter[q], sent[q], "eof", got[q],
               result[q])
    BY <1>1, <1>2 DEF SlotInv
  <2>4. SlotOK("done", req[q], out[q], resp'[q], rewriter[q], sent[q], "eof", body,
               Verdict(req[q], body, Bytes(body)))
    BY <2>2, <2>3, SwappedSlot
  <2>5. SlotInv(q)'
    BY <1>1, <1>2, <2>2, <2>4 DEF SlotInv
  <2> QED
    BY <2>1, <2>5 DEF StepOK
<1>3. CASE upstream[q] = "broken" /\ Deliver(q, << >>, resp[q].length)
  <2>1. Touches(q) /\ SlotDomains'
    BY <1>1, <1>3, DeliverTouches
  <2>2. /\ stage'[q] = "done" /\ got'[q] = << >>
        /\ resp'[q] = [resp[q] EXCEPT !.length = resp[q].length]
        /\ result'[q] = Verdict(req[q], << >>, resp[q].length)
    BY <1>3, DeliverSlot
  <2>3. SlotOK("swap", req[q], out[q], resp[q], rewriter[q], sent[q], "broken", got[q],
               result[q])
    BY <1>1, <1>3 DEF SlotInv
  <2>4. SlotOK("done", req[q], out[q], resp'[q], rewriter[q], sent[q], "broken", << >>,
               Verdict(req[q], << >>, resp[q].length))
    BY <2>2, <2>3, EmptiedSlot
  <2>5. SlotInv(q)'
    BY <1>1, <1>3, <2>2, <2>4 DEF SlotInv
  <2> QED
    BY <2>1, <2>5 DEF StepOK
<1> QED
  BY <1>2, <1>3 DEF SwapBody

\* Behind a proxy it trusts, the application sees the browser's origin; anyway
\* the origin it sees is made of texts.
LEMMA LinkSeen ==
  ASSUME NEW r \in Requests, Route(r) = "app", Handle(Remote, TRUE),
         NEW o, o = Stamp(r),
         NEW link, link = Origin(SeenScheme(Remote, o.fwdProto),
                                 SeenHost(Remote, o.host, o.fwdHost))
  PROVE  link \in Origins /\ (Trusting => link = Browser(r))
<1>1. /\ o.fwdHost = r.host /\ o.host = r.host
      /\ o.fwdProto = (IF r.proto = "" THEN "http" ELSE r.proto)
  BY DEF Stamp
<1>2. Trusting => trusted' = {Remote}
  BY DEF Handle, ThroughLocalhoist, Trusting
<1>3. r.proto \in STRING /\ r.host \in STRING
  BY RequestIsOne
<1>4. SeenHost(Remote, o.host, o.fwdHost) = r.host
  BY <1>1 DEF SeenHost
<1>5. /\ SeenScheme(Remote, o.fwdProto) \in {"http", r.proto}
      /\ Trusting => SeenScheme(Remote, o.fwdProto) = o.fwdProto
  BY <1>1, <1>2 DEF SeenScheme
<1>6. link \in Origins
  BY <1>3, <1>4, <1>5 DEF Origins, Origin, Texts
<1>7. Trusting => link = Browser(r)
  BY <1>1, <1>4, <1>5 DEF Browser
<1> QED
  BY <1>6, <1>7

LEMMA SentAnswers ==
  ASSUME NEW q \in Slots, NEW r \in Requests, req[q] = r, out[q] = Stamp(r),
         NEW responses, \A x \in responses : Rendered(r, x), NEW b \in Sent(q, responses)
  PROVE  AnswerOK(r, b)
<1>1. Stamp(r).identity = MayRewrite(Route(r), r)
  BY DEF Stamp
<1>2. PICK x \in responses, zip \in Encodings(out[q].identity) :
        b = AsSent(x, r.head, zip)
  BY DEF Sent
<1>3. zip \in {FALSE, ~MayRewrite(Route(r), r)}
  BY <1>1, <1>2 DEF Encodings
<1> QED
  BY <1>2, <1>3, SentAnswer

LEMMA RespondStep ==
  ASSUME SlotDomains, NEW q \in Slots, SlotInv(q), Respond(q),
         hot \in HotOrigins \cup {NoOrigin}
  PROVE  StepOK(q)
<1>1. /\ stage[q] = "sent" /\ stage' = [stage EXCEPT ![q] = "header"]
      /\ UNCHANGED <<req, out, rewriter, sent, upstream, got, result>>
  BY DEF Respond
<1>2. req[q] \in Requests /\ out[q] = Stamp(req[q])
  BY <1>1 DEF SlotInv, SlotOK
<1>3. out[q].name = Route(req[q]) /\ out[q].marker = TRUE
  BY <1>2, RequestIsOne
<1>4. PICK b : resp' = [resp EXCEPT ![q] = b] /\ AnswerOK(req[q], b)
  <2>1. CASE resp' = [resp EXCEPT ![q] = Upgraded]
    BY <2>1, TextAnswers
  <2>2. CASE /\ out[q].name = "app" /\ Handle(Remote, out[q].marker)
             /\ LET link == Origin(SeenScheme(Remote, out[q].fwdProto),
                                   SeenHost(Remote, out[q].host, out[q].fwdHost))
                IN \E x \in Sent(q, AppResponses(link)) : resp' = [resp EXCEPT ![q] = x]
    <3>1. PICK link :
            /\ link = Origin(SeenScheme(Remote, out[q].fwdProto),
                             SeenHost(Remote, out[q].host, out[q].fwdHost))
            /\ \E x \in Sent(q, AppResponses(link)) : resp' = [resp EXCEPT ![q] = x]
      BY <2>2
    <3>2. link \in Origins /\ (Trusting => link = Browser(req[q]))
      BY <1>2, <1>3, <2>2, <3>1, LinkSeen
    <3>3. \A x \in AppResponses(link) : Rendered(req[q], x)
      BY <1>2, <1>3, <2>2, <3>2, AppAnswers
    <3>4. PICK x \in Sent(q, AppResponses(link)) : resp' = [resp EXCEPT ![q] = x]
      BY <3>1
    <3>5. AnswerOK(req[q], x)
      BY <1>2, <3>3, SentAnswers
    <3> QED
      BY <3>4, <3>5
  <2>3. CASE /\ out[q].name = "vite"
             /\ \E x \in Sent(q, ViteResponses(req[q])) : resp' = [resp EXCEPT ![q] = x]
    <3>1. \A x \in ViteResponses(req[q]) : Rendered(req[q], x)
      BY <1>2, <1>3, <2>3, ViteAnswers
    <3>2. PICK x \in Sent(q, ViteResponses(req[q])) : resp' = [resp EXCEPT ![q] = x]
      BY <2>3
    <3>3. AnswerOK(req[q], x)
      BY <1>2, <3>1, SentAnswers
    <3> QED
      BY <3>2, <3>3
  <2>4. CASE resp' = [resp EXCEPT ![q] = Response(404, "text", << Text >>)]
    <3>1. AnswerOK(req[q], Response(404, "text", << Text >>))
      BY TextAnswers
    <3> QED
      BY <2>4, <3>1, Zenon
  <2> QED
    BY <2>1, <2>2, <2>3, <2>4 DEF Respond
<1>5. Touches(q) /\ SlotDomains' /\ stage'[q] = "header" /\ resp'[q] = b
  BY <1>1, <1>4 DEF Touches, SlotDomains
<1>6. SlotInv(q)'
  BY <1>1, <1>4, <1>5, AnsweredSlot DEF SlotInv
<1> QED
  BY <1>5, <1>6 DEF StepOK

\* One more piece still begins the body.
LEMMA OneMorePiece ==
  ASSUME NEW body \in Seq(Items), NEW t, Begins(t, body), Len(t) < Len(body)
  PROVE  Begins(SubSeq(body, 1, Len(t) + 1), body)
<1>1. PICK m \in Nat, n \in Nat : m = Len(t) /\ n = Len(body) /\ m < n
  BY LenProperties DEF Begins
<1>2. \A i \in 1 .. m + 1 : body[i] \in Items
  BY <1>1
<1>3. /\ SubSeq(body, 1, m + 1) \in Seq(Items)
      /\ Len(SubSeq(body, 1, m + 1)) = m + 1
      /\ \A i \in 1 .. m + 1 : SubSeq(body, 1, m + 1)[i] = body[i]
  <2>1. /\ SubSeq(body, 1, m + 1) \in Seq(Items)
        /\ Len(SubSeq(body, 1, m + 1)) = IF 1 <= m + 1 THEN m + 1 - 1 + 1 ELSE 0
        /\ \A i \in 1 .. m + 1 - 1 + 1 : SubSeq(body, 1, m + 1)[i] = body[1 + i - 1]
    BY <1>2, SubSeqProperties
  <2> QED
    BY <2>1
<1>4. PICK x : x = SubSeq(body, 1, m + 1)
  OBVIOUS
<1>5. x \in Seq(Items) /\ Len(x) = m + 1 /\ \A i \in 1 .. m + 1 : x[i] = body[i]
  BY <1>3, <1>4, Zenon
<1>6. Begins(x, body)
  BY <1>1, <1>5 DEF Begins
<1> QED
  BY <1>1, <1>4, <1>6, Zenon

LEMMA UpstreamStep ==
  ASSUME SlotDomains, NEW q \in Slots, SlotInv(q), Send(q) \/ Finish(q) \/ BreakOff(q)
  PROVE  StepOK(q)
<1>1. /\ stage[q] \in {"header", "stream", "swap"} /\ upstream[q] = "open"
      /\ UNCHANGED <<stage, req, out, resp, rewriter, got, result>>
  BY DEF Send, Finish, BreakOff, Answering
<1>2. AnswerOK(req[q], resp[q]) /\ Begins(sent[q], resp[q].body)
  BY <1>1 DEF SlotInv, SlotOK
<1>3. resp[q].body \in Seq(Items)
  BY <1>2 DEF AnswerOK, Answers
<1>4. PICK x, v :
        /\ Touches(q) /\ SlotDomains' /\ sent'[q] = x /\ upstream'[q] = v
        /\ Begins(x, resp[q].body) /\ v \in {"open", "eof", "broken"}
        /\ v = "eof" => x = resp[q].body
  <2>1. CASE Send(q)
    <3>1. Begins(SubSeq(resp[q].body, 1, Len(sent[q]) + 1), resp[q].body)
      BY <1>2, <1>3, <2>1, OneMorePiece DEF Send
    <3>2. /\ Touches(q) /\ SlotDomains' /\ upstream'[q] = "open"
          /\ sent'[q] = SubSeq(resp[q].body, 1, Len(sent[q]) + 1)
      BY <1>1, <2>1 DEF Send, Touches, SlotDomains
    <3> QED
      BY <3>1, <3>2
  <2>2. CASE Finish(q)
    <3>1. /\ Touches(q) /\ SlotDomains' /\ upstream'[q] = "eof" /\ sent'[q] = sent[q]
          /\ sent[q] = resp[q].body
      BY <1>1, <2>2 DEF Finish, Touches, SlotDomains
    <3> QED
      BY <1>2, <3>1
  <2>3. CASE BreakOff(q)
    <3>1. Touches(q) /\ SlotDomains' /\ upstream'[q] = "broken" /\ sent'[q] = sent[q]
      BY <1>1, <2>3 DEF BreakOff, Touches, SlotDomains
    <3> QED
      BY <1>2, <3>1
  <2> QED
    BY <2>1, <2>2, <2>3
<1>5. SlotOK(stage[q], req[q], out[q], resp[q], rewriter[q], x, v, got[q], result[q])
  BY <1>1, <1>4, SendingSlot DEF SlotInv
<1>6. SlotInv(q)'
  BY <1>1, <1>4, <1>5 DEF SlotInv
<1> QED
  BY <1>4, <1>6 DEF StepOK

----------------------------------------------------------------------------
(* The whole.                                                              *)

LEMMA SlotStepInv ==
  ASSUME ServingInv, NEW q \in Slots, StepOK(q), UNCHANGED <<hot, visited>>,
         trusted' \subseteq {"127.0.0.1", "::1"}
  PROVE  ServingInv'
<1>1. ASSUME NEW p \in Slots
      PROVE  SlotInv(p)'
  <2>1. CASE p = q
    BY <2>1 DEF StepOK
  <2>2. CASE p # q
    BY <2>2 DEF ServingInv, StepOK, Touches, SlotInv
  <2> QED
    BY <2>1, <2>2
<1> QED
  BY <1>1 DEF ServingInv, StepOK, UnmarkedIgnored

LEMMA ServingInit == Init => ServingInv
<1> SUFFICES ASSUME Init
             PROVE  ServingInv
  OBVIOUS
<1>1. SlotDomains /\ hot \in HotOrigins \cup {NoOrigin}
  BY DEF Init, MuxInit, SlotDomains
<1>2. ASSUME NEW q \in Slots
      PROVE  SlotInv(q)
  <2>1. /\ stage[q] = "free" /\ req[q] = << >> /\ out[q] = << >> /\ resp[q] = << >>
        /\ rewriter[q] = << >> /\ sent[q] = << >> /\ upstream[q] = "open"
        /\ got[q] = << >> /\ result[q] = "open"
    BY DEF Init, MuxInit
  <2> QED
    BY <2>1, FreeSlot DEF SlotInv
<1> QED
  BY <1>1, <1>2 DEF Init, MiddlewareInit, ServingInv, UnmarkedIgnored

LEMMA ServingStep ==
  ASSUME ServingInv, [Next]_svars
  PROVE  ServingInv'
<1>0. /\ SlotDomains /\ hot \in HotOrigins \cup {NoOrigin}
      /\ trusted \subseteq {"127.0.0.1", "::1"} /\ \A q \in Slots : SlotInv(q)
  BY DEF ServingInv
<1>1. ASSUME NEW q \in Slots, MuxActs(q)
      PROVE  ServingInv'
  <2>1. UNCHANGED <<trusted, visited>>
    BY <1>1 DEF MuxActs
  <2>2. UNCHANGED hot /\ StepOK(q)
    <3>1. CASE Arrive(q)
      BY <1>0, <3>1, ArriveStep DEF Arrive
    <3>2. CASE BadGateway(q)
      BY <1>0, <3>2, BadGatewayStep DEF BadGateway
    <3>3. CASE Close(q)
      BY <1>0, <3>3, CloseStep DEF Close
    <3>4. CASE ModifyResponse(q)
      BY <1>0, <3>4, ModifyResponseStep DEF ModifyResponse
    <3>5. CASE Forward(q)
      BY <1>0, <3>5, ForwardStep DEF Forward
    <3>6. CASE StreamEnds(q)
      BY <1>0, <3>6, StreamEndsStep DEF StreamEnds
    <3>7. CASE SwapBody(q)
      BY <1>0, <3>7, SwapBodyStep DEF SwapBody
    <3> QED
      BY <1>1, <3>1, <3>2, <3>3, <3>4, <3>5, <3>6, <3>7 DEF MuxActs, MuxStep
  <2> QED
    BY <1>0, <2>1, <2>2, SlotStepInv
<1>2. ASSUME NEW q \in Slots, Respond(q)
      PROVE  ServingInv'
  <2>1. StepOK(q)
    BY <1>0, <1>2, RespondStep
  <2>2. UNCHANGED <<hot, visited>> /\ trusted' \subseteq {"127.0.0.1", "::1"}
    BY <1>0, <1>2 DEF Respond, Handle, ThroughLocalhoist, TrustProxies
  <2> QED
    BY <2>1, <2>2, SlotStepInv
<1>3. ASSUME NEW q \in Slots, Send(q) \/ Finish(q) \/ BreakOff(q)
      PROVE  ServingInv'
  <2>1. StepOK(q)
    BY <1>0, <1>3, UpstreamStep
  <2>2. UNCHANGED <<hot, trusted, visited>>
    BY <1>3 DEF Send, Finish, BreakOff
  <2> QED
    BY <1>0, <2>1, <2>2, SlotStepInv
<1>4. CASE ViteMoves
  BY <1>4 DEF ViteMoves, ServingInv, SlotDomains, SlotInv, UnmarkedIgnored
<1>5. CASE VisitDirectly
  <2>1. trusted' = {} /\ UNCHANGED muxVars
    BY <1>5 DEF VisitDirectly, Handle, ThroughLocalhoist, TrustProxies
  <2>2. visited' = Origin("http", "localhost")
    BY <1>5, <2>1 DEF VisitDirectly, SeenScheme, SeenHost
  <2> QED
    BY <2>1, <2>2 DEF muxVars, ServingInv, SlotDomains, SlotInv, UnmarkedIgnored
<1>6. CASE UNCHANGED svars
  BY <1>6 DEF svars, muxVars, ServingInv, SlotDomains, SlotInv, UnmarkedIgnored
<1> QED
  BY <1>1, <1>2, <1>3, <1>4, <1>5, <1>6 DEF Next

\* Each slot is in a state that SlotOK describes, and no visit past the mux was
\* taken for one through the tunnel.
THEOREM ServingInvariant == Spec => []ServingInv
  BY ServingInit, ServingStep, PTL DEF Spec

----------------------------------------------------------------------------
(* What follows from it.                                                   *)

LEMMA ServingInvProperties ==
  ASSUME ServingInv
  PROVE  /\ ServingTypeOK /\ RoutesBySegment /\ PublicLinks /\ PublicReferences
         /\ LeftAlone /\ CutsShow /\ UnmarkedIgnored
<1>1. \A q \in Slots : SlotInv(q)
  BY DEF ServingInv
<1>2. ServingTypeOK
  <2>1. ASSUME NEW q \in Slots, stage[q] \in {"stream", "swap"}
        PROVE  rewriter[q] # << >>
    <3>1. rewriter[q] \in Rewriters
      BY <1>1, <2>1 DEF SlotInv, SlotOK, RewriterOK
    <3> QED
      <4>1. DOMAIN rewriter[q] = {"kind", "hot"}
        BY <3>1 DEF Rewriters
      <4>2. DOMAIN << >> = {}
        OBVIOUS
      <4> QED
        BY <4>1, <4>2
  <2> QED
    BY <1>1, <2>1 DEF ServingInv, ServingTypeOK, SlotInv, SlotOK, Stages
<1>3. RoutesBySegment
  <2> SUFFICES ASSUME NEW q \in Slots, stage[q] # "free"
               PROVE  out[q].name = Owner(req[q])
    BY DEF RoutesBySegment
  <2>1. req[q] \in Requests /\ out[q] = Stamp(req[q])
    BY <1>1 DEF SlotInv, SlotOK
  <2> QED
    BY <2>1, RequestIsOne
<1>4. PublicLinks
  BY <1>1 DEF PublicLinks, PublicLinksThroughMux, SlotInv, SlotOK, LinksOK
<1>5. PublicReferences
  <2> SUFFICES ASSUME NEW q \in Slots, result[q] = "complete", resp[q].status = 200
               PROVE  ReferencesOK(req[q], resp[q], rewriter[q], got[q])
    BY DEF PublicReferences, ReferencesOK
  <2>1. stage[q] = "done"
    BY <1>1 DEF SlotInv, SlotOK
  <2> QED
    BY <1>1, <2>1 DEF SlotInv, SlotOK
<1>6. CutsShow
  BY <1>1 DEF CutsShow, SlotInv, SlotOK, CutOK
<1>7. LeftAlone
  <2> SUFFICES ASSUME NEW q \in Slots, result[q] = "complete"
               PROVE  AloneOK(resp[q], got[q], result[q])
    BY DEF LeftAlone, AloneOK
  <2>1. stage[q] = "done"
    BY <1>1 DEF SlotInv, SlotOK
  <2> QED
    BY <1>1, <2>1 DEF SlotInv, SlotOK
<1> QED
  BY <1>2, <1>3, <1>4, <1>5, <1>6, <1>7 DEF ServingInv

\* Every slot goes through its stages as the code does.
THEOREM ServingTypes == Spec => []ServingTypeOK
  BY ServingInvariant, ServingInvProperties, PTL

\* The routing table does what README.md:113-117 says of the first segment, for
\* paths of any length.
THEOREM ServingRoutes == Spec => []RoutesBySegment
  BY ServingInvariant, ServingInvProperties, PTL

\* Behind a trusting middleware every link has the origin the browser used, and
\* neither streaming nor a rewrite changes that.
THEOREM ServingLinks == Spec => []PublicLinks
  BY ServingInvariant, ServingInvProperties, PTL

\* A page with status 200 that was asked for as a page and came whole keeps no asset
\* of the dev server that the hot file named when its header came, whenever that
\* server moves; the HMR client and Echo keep no local address in any whole response
\* with status 200.  References to a server that had moved by then stay as they are.
THEOREM ServingReferences == Spec => []PublicReferences
  BY ServingInvariant, ServingInvProperties, PTL

\* A whole response with another status, or a compressed one, is the upstream's to
\* the last reference: an error page keeps the dev server's address.
THEOREM ServingLeavesAlone == Spec => []LeftAlone
  BY ServingInvariant, ServingInvProperties, PTL

\* A response broken off upstream is not taken for a whole one, nor the reverse,
\* unless it was held back with no length declared: emptying a swapped body never
\* gives the length that was declared.
THEOREM ServingCuts == Spec => []CutsShow
  BY ServingInvariant, ServingInvProperties, PTL

\* In a worker that served the mux before, a visit without the marker is taken for
\* a local one.
THEOREM ServingUnmarked == Spec => []UnmarkedIgnored
  BY ServingInvariant, ServingInvProperties, PTL
============================================================================
