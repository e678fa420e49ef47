--------------------------- MODULE PublishedOutputs ---------------------------
(***************************************************************************)
(* What the content-addressed artifact store promises its callers: a unit  *)
(* is published once, as a whole, and what was published never changes.    *)
(***************************************************************************)
CONSTANTS Units, Outputs  \* Outputs[u]: what may be committed for unit u

VARIABLE published

Init == published = [u \in {} |-> {}]

\* One unit becomes readable with one of its possible outputs.
Publish ==
  \E u \in Units \ DOMAIN published, o \in UNION {Outputs[v] : v \in Units} :
    /\ o \in Outputs[u]
    /\ published' = [v \in DOMAIN published \cup {u} |->
                       IF v = u THEN o ELSE published[v]]

Spec == Init /\ [][Publish]_published
===============================================================================
