--------------------------- MODULE MCToolExecution ---------------------------
(***************************************************************************)
(* Small instances of ToolExecution.                                       *)
(***************************************************************************)
EXTENDS ToolExecution, TLC

MCTools == {"http", "page"}
MCKeyFields == "http" :> {"url", "body"} @@ "page" :> {"url"}
MCToolLimit == "http" :> 2 @@ "page" :> 1

\* The same action twice on a page, then two equal requests to confirm.
MCCalls == {"p", "q", "a", "b"}
MCToolOf == [c \in MCCalls |-> IF c \in {"p", "q"} THEN "page" ELSE "http"]
MCInput == [c \in MCCalls |-> "url" :> 1]
MCLayerOf == [c \in MCCalls |-> IF c \in {"p", "q"} THEN 0 ELSE 1]

\* Two clicks on different elements of a page, one after the other, with the
\* idempotency_key_fields = [] of the browser tools.
Clicks == {"p", "q"}
ClickToolOf == [c \in Clicks |-> "page"]
ClickInput == "p" :> ("ref" :> 1) @@ "q" :> ("ref" :> 2)
ClickKeyFields == "http" :> {"url", "body"} @@ "page" :> {}
ClickLayerOf == "p" :> 0 @@ "q" :> 1
=============================================================================
