----------------------------- MODULE MCServing -----------------------------
(* Small instances of Serving for TLC. *)
EXTENDS Serving

MCHotOrigins == {Origin("http", "vite1"), Origin("http", "vite2")}

MCLock == << [name |-> "laravel/framework", version |-> << 11, 0, NaN >>],
             [name |-> Package, version |-> << 0, 2, 1 >>] >>

\* A page, asked for as one or not or by HEAD, through the tunnel or locally;
\* the HMR client and a module; Vite's and Reverb's websockets; and paths that
\* are a subtree's own, or only look like one of it.
MCRequest(path, upgrade, html, head, proto, host) ==
  [path |-> path, upgrade |-> upgrade, html |-> html, head |-> head,
   proto |-> proto, host |-> host]
Tunnelled(path, upgrade, html) ==
  MCRequest(path, upgrade, html, FALSE, "https", "public")

MCRequests ==
  { Tunnelled(<<"/", "app", "le">>, "", TRUE),
    Tunnelled(<<"/">>, "", FALSE),
    MCRequest(<<"/">>, "", TRUE, TRUE, "https", "public"),
    MCRequest(<<"/">>, "", TRUE, FALSE, "", "mux"),
    Tunnelled(<<"/", "@vite", "/", "client">>, "", FALSE),
    Tunnelled(<<"/", "resources", "/", "js">>, "", FALSE),
    Tunnelled(<<"/", "app", "/", "key">>, "vite-hmr", FALSE),
    Tunnelled(<<"/", "app", "/", "key">>, "pusher", FALSE),
    Tunnelled(<<"/", "app">>, "", FALSE),
    Tunnelled(<<"/", "@vite">>, "", FALSE),
    Tunnelled(<<"/", "resources", "x", "/", "js">>, "", FALSE),
    Tunnelled(<<"/", "__vite_hmr", "x">>, "", FALSE),
    Tunnelled(<< >>, "", FALSE) }
============================================================================
