---- MODULE DocRecords ----
(***************************************************************************)
(* The entries of the document store's INDEX.json and what each operation  *)
(* makes of them (store-models.mjs and the pure parts of                   *)
(* managed-doc-store.mjs). A document refers to others by relations, of    *)
(* one type, weak or strong; every relation is mirrored in its target's    *)
(* inboundRefs, which counts as a change of the target.                    *)
(***************************************************************************)
EXTENDS Integers, FiniteSets

CONSTANTS
  Docs,       \* document refs ("design:some-slug")
  Nothing     \* no entry, no file

Strengths == {"weak", "strong"}
Relations == Docs \X Strengths

\* A document's content is named by the transaction that wrote it ("by").
Record == [rev: Nat \ {0}, arch: BOOLEAN, out: SUBSET Relations, inb: SUBSET Relations, by: Nat]
Entries == [Docs -> Record \union {Nothing}]

NoEntries == [d \in Docs |-> Nothing]

IsLive(ents, d) == ents[d] # Nothing /\ ~ents[d].arch

\* The relations of d that come or go when its refs change from old to new, and
\* the mirrors of those: only a live target can be rewritten.
Differing(old, new) == (old \ new) \union (new \ old)
TargetsLive(ents, old, new) == \A rel \in Differing(old, new) : IsLive(ents, rel[1])

MirrorsAdjusted(inb, d, t, old, new) ==
  (inb \ {<<d, s>> : s \in {x \in Strengths : <<t, x>> \in old \ new}})
    \union {<<d, s>> : s \in {x \in Strengths : <<t, x>> \in new \ old}}

\* The entries once d's record is rec, its refs having been old.
WithMirrors(ents, d, rec, old) ==
  LET inb(t) == MirrorsAdjusted(IF t = d THEN rec.inb ELSE ents[t].inb, d, t, old, rec.out)
  IN [t \in Docs |->
        IF t = d THEN [rec EXCEPT !.inb = inb(d)]
        ELSE IF ents[t] = Nothing \/ inb(t) = ents[t].inb THEN ents[t]
        ELSE [ents[t] EXCEPT !.inb = inb(t), !.rev = @ + 1]]

-----------------------------------------------------------------------------
(* createDocument, and importLegacyDocument and adoptDocument, which create.  *)

NewRecord(out, by) == [rev |-> 1, arch |-> FALSE, out |-> out, inb |-> {}, by |-> by]

CanCreate(ents, d, out) == ents[d] = Nothing /\ TargetsLive(ents, {}, out)
Created(ents, d, out, by) == WithMirrors(ents, d, NewRecord(out, by), {})

\* updateDocument.
CanUpdate(ents, d, out) == IsLive(ents, d) /\ TargetsLive(ents, ents[d].out, out)
Updated(ents, d, out, by) ==
  WithMirrors(ents, d, [ents[d] EXCEPT !.out = out, !.rev = @ + 1, !.by = by], ents[d].out)

\* archiveDocument: refused while a live document refers to it.
CanArchive(ents, d) == IsLive(ents, d) /\ \A rel \in ents[d].inb : ~IsLive(ents, rel[1])
Archived(ents, d) == [ents EXCEPT ![d].arch = TRUE, ![d].rev = @ + 1]

\* linkDocuments: whatever relates d to t becomes one strong relation.
StrongOnly(out, t) == {rel \in out : rel[1] # t} \union {<<t, "strong">>}
CanLink(ents, d, t) == IsLive(ents, d) /\ IsLive(ents, t)
Linked(ents, d, t) ==
  LET out == StrongOnly(ents[d].out, t)
  IN IF out = ents[d].out THEN ents
     ELSE WithMirrors(ents, d, [ents[d] EXCEPT !.out = out, !.rev = @ + 1], ents[d].out)

\* The other documents an operation on d changed.
Mirrored(before, after, d) == {t \in Docs \ {d} : after[t] # before[t]}
====
