-------------------------- MODULE MCSnapshotCollector --------------------------
(* Instances of SnapshotCollector for TLC. *)
EXTENDS SnapshotCollector

CONSTANTS n1, n2

Document(resolved, configured) == [resolved |-> resolved, configured |-> configured]

To(ref, agent) == [ref |-> ref, agent |-> agent]

\* One ref resolved and configured; one that lacks its ref, one that lacks its id,
\* and configured alone; one ref resolved to two agents; none.
MCDocuments ==
    {NoDocument,
     Document({To(n1, n2)}, {n1, n2}),
     Document({To(None, n1), To(n2, None)}, {n1, n2}),
     Document({To(None, n1), To(n1, n1)}, {}),
     Document({To(n1, n1), To(n1, n2)}, {n2}),
     Document({To(None, n1), To(None, n2)}, {})}

=============================================================================
