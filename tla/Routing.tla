------------------------------ MODULE Routing ------------------------------
(***************************************************************************)
(* Which upstream a request goes to: Config.Routes, Mux.route and matches  *)
(* of src/internal/proxy/proxy.go.                                         *)
(*                                                                         *)
(* A path is a sequence of "/" and pieces of names: "/app/key" is          *)
(* <<"/", "app", "/", "key">>, "/apple" is <<"/", "app", "le">>.           *)
(***************************************************************************)
EXTENDS SequencesExt

CONSTANT Reverb     \* the project uses Reverb

ASSUME ReverbAssumption == Reverb \in BOOLEAN

Upstreams == {"app", "vite", "reverb"}

Subtree(name) == <<"/", name, "/">>

VitePrefixes ==
  << Subtree("@vite"), Subtree("@id"), Subtree("@fs"), Subtree("resources"),
     Subtree("node_modules"), Subtree("vendor"), <<"/", "__vite_hmr">>,
     Subtree("__laravel_vite_plugin__") >>

\* The routing table, in the order in which it is searched.
Routes ==
  LET To(name) == [i \in DOMAIN VitePrefixes |->
                     [prefix |-> VitePrefixes[i], name |-> name]]
  IN (IF Reverb THEN << [prefix |-> Subtree("app"), name |-> "reverb"] >>
                ELSE << >>)
       \o To("vite") \o << [prefix |-> <<"/">>, name |-> "app"] >>

\* Bug: a subtree is any path that begins with its name, as in nginx.
MatchesName(path, prefix) ==
  IsPrefix(IF Len(prefix) > 1 /\ Last(prefix) = "/" THEN Front(prefix) ELSE prefix,
           path)

\* A prefix ending in "/" also matches the bare path.
Matches(path, prefix) ==
  \/ IsPrefix(prefix, path)
  \/ Last(prefix) = "/" /\ path = Front(prefix)

\* Vite's websockets arrive on any path; their subprotocol gives them away.
IsViteWebsocket(r) == r.upgrade \in {"vite-hmr", "vite-ping"}

\* The first route that matches, or the last one.
Route(r) ==
  LET hits == {i \in DOMAIN Routes : Matches(r.path, Routes[i].prefix)}
  IN IF IsViteWebsocket(r) THEN "vite"
     ELSE IF hits = {} THEN Last(Routes).name
     ELSE Routes[Min(hits)].name

----------------------------------------------------------------------------
(* What the table is meant to say.                                         *)

\* A request names a path from the root, none, or "*": net/http refuses others.
IsTarget(path) == path = << >> \/ path = <<"*">> \/ path[1] = "/"

\* README.md:106-111: the first segment of the path decides, and /apple is not
\* under /app; a websocket of Vite's goes to Vite wherever it arrives.
FirstSegment(path) ==
  LET ends == {i \in 2 .. Len(path) : path[i] = "/"}
  IN SubSeq(path, 2, IF ends = {} THEN Len(path) ELSE Min(ends) - 1)

Owner(r) ==
  LET first == FirstSegment(r.path)
  IN IF r.upgrade \in {"vite-hmr", "vite-ping"} THEN "vite"
     ELSE IF Reverb /\ first = <<"app">> THEN "reverb"
     ELSE IF \/ first \in {<<"@vite">>, <<"@id">>, <<"@fs">>, <<"resources">>,
                  <<"node_modules">>, <<"vendor">>, <<"__laravel_vite_plugin__">>}
             \/ first # << >> /\ Head(first) = "__vite_hmr"
     THEN "vite" ELSE "app"
============================================================================
