-------------------------- MODULE MCSpanNormalizer --------------------------
(***************************************************************************)
(* A publishing span, and every span that differs from it in one or two    *)
(* attributes or timestamps.  Requests of one or two spans.                *)
(***************************************************************************)
EXTENDS SpanNormalizer

CONSTANTS svc, unknown, inbox, subject, nats, kafka, redis, prod, dev, ns, lib

Good == [operation |-> <<"send">>, service |-> <<svc>>, namespace |-> <<>>,
         environment |-> <<>>, system |-> <<nats>>, destination |-> <<subject>>,
         template |-> <<>>, origin |-> lib, start |-> 1, end |-> 2]

Text(values) == {<<>>, <<Blank>>, <<TooLong>>, <<NotString>>} \cup values

Variants ==
    [operation   |-> Text({<<"process">>, <<"receive">>, <<"send", "send">>}),
     service     |-> Text({<<unknown>>, <<svc, svc>>}),
     namespace   |-> Text({<<ns>>, <<ns, ns>>}),
     environment |-> Text({<<prod>>, <<dev>>, <<prod, dev>>}),
     system      |-> Text({<<kafka>>, <<redis>>, <<nats, kafka>>}),
     destination |-> Text({<<inbox>>, <<subject, inbox>>}),
     template    |-> Text({<<subject>>, <<subject, subject>>}),
     origin      |-> {Blank, TooLong},
     start       |-> {0, 3, 6},
     end         |-> {0, 3, 5, 7}]

Varied(span) ==
    UNION {{[span EXCEPT ![f] = v] : v \in Variants[f]} : f \in DOMAIN Good}

Once == Varied(Good)

Twice == UNION {Varied(span) : span \in Once}

\* The inboxes of NATS; the same name is an ordinary one elsewhere.
MCInbox == {<<nats, inbox>>}

MCRequests == {<<>>} \cup {<<x>> : x \in Twice} \cup {<<x, y>> : x \in Once, y \in Twice}

=============================================================================
