----------------------------- MODULE MCLspServer -----------------------------
EXTENDS LspServer

KindOf ==
    [init |-> "initialize", ready |-> "initialized", hover |-> "async", lens |-> "async",
     rename |-> "sync", other |-> "unknown", bad |-> "invalid", early |-> "sync",
     mapped |-> "mapped", edit |-> "edit", close |-> "shutdown", exit |-> "exit"]

Names == DOMAIN KindOf

Client(sends, ends, fails) ==
    [script |-> sends, installs |-> ends, unmarshalable |-> fails]

\* Clients that edit and shut down while a refresh is due; one with two requests at once;
\* one that sends a request too early; and one that leaves before it is ready, and again.
ClientsOf ==
    {Client(<<"init", "ready", "mapped", "edit", "close", "exit">>, 1, 0),
     Client(<<"init", "ready", "mapped", "hover", "edit", "close">>, 0, 0),
     Client(<<"early", "init", "ready", "hover", "lens", "exit">>, 0, 0),
     Client(<<"init", "exit", "ready", "bad", "rename", "other", "hover", "exit">>, 0, 1)}
=============================================================================
