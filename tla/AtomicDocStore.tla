---- MODULE AtomicDocStore ----
(***************************************************************************)
(* What the document store promises: an operation changes all the entries  *)
(* it touches at once, or none. Its caller may still see it fail and be    *)
(* revoked, until it is acknowledged.                                      *)
(***************************************************************************)
EXTENDS DocRecords

VARIABLES
  ents,     \* the documents
  undo      \* what they are again if the last operation is revoked

Init == ents = NoEntries /\ undo = NoEntries

Create(d, out, by) == CanCreate(ents, d, out) /\ ents' = Created(ents, d, out, by)
Update(d, out, by) == CanUpdate(ents, d, out) /\ ents' = Updated(ents, d, out, by)
Archive(d) == CanArchive(ents, d) /\ ents' = Archived(ents, d)
Link(d, t) == CanLink(ents, d, t) /\ ents' = Linked(ents, d, t)

Change(Ids) ==
  /\ \/ \E d \in Docs, out \in SUBSET Relations, by \in Ids : Create(d, out, by) \/ Update(d, out, by)
     \/ \E d \in Docs : Archive(d) \/ \E t \in Docs : Link(d, t)
  /\ undo' \in {ents, ents'}

Acknowledge == ents' = ents /\ undo' = ents
Revoke == ents' = undo /\ undo' = undo

Next(Ids) == Change(Ids) \/ Acknowledge \/ Revoke
====
