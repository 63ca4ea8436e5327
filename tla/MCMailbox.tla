------------------------------ MODULE MCMailbox ------------------------------
(* Inboxes for model checking Mailbox. *)
EXTENDS Mailbox

Letter(key, id, content) == [key |-> key, id |-> id, content |-> content, trusted |-> TRUE]
Foreign(key, id, content) == [Letter(key, id, content) EXCEPT !.trusted = FALSE]

FourMails == 1 .. 4
\* A job that is malformed at first; its job_id with other content; its job_id and
\* content in a message of their own; and a stranger.
Mixed == <<Letter(1, 1, 1), Letter(2, 1, 2), Letter(3, 1, 1), Foreign(4, 1, 1)>>
FirstBroken == {1}
=============================================================================
