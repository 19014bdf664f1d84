---------------------------- MODULE AccessProofs ----------------------------
(***************************************************************************)
(* Links join existing rows, and a request gives and takes only what it    *)
(* names, for any number of overlapping requests.                          *)
(***************************************************************************)
EXTENDS Access, TLAPS

\* What a session may rely on: a collection is set to items of its row; what
\* the request adds to the collection it loaded is named, and so is what it
\* drops, unless it replaces the collection or deletes the row.
EditInv(e) ==
    /\ e.kind # "none" => e.of # Nobody
    /\ e.kind = "delete" => \A l \in e.loaded : e.of \in {l[1], l[2]}
    /\ e.kind # "delete" =>
          /\ e.wanted \subseteq Items(e.of)
          /\ e.loaded \subseteq {e.of} \X Items(e.of)
          /\ \A y \in e.wanted : <<e.of, y>> \in e.loaded \/ y \in e.named
    /\ e.kind = "create" => e.loaded = {}
    /\ e.kind = "replace" => e.wanted = e.named
    /\ e.kind \in {"none", "assign", "other"} =>
          \A l \in e.loaded : l[2] \in e.wanted
    /\ e.kind = "remove" =>
          \A l \in e.loaded : l[2] \in e.wanted \/ l[2] \in e.named

AccessInv ==
    /\ AccessTypeOK
    /\ LinksWhole
    /\ \A h \in Editors : EditInv(edit[h])

LEMMA LinkParts ==
    ASSUME NEW l \in Links
    PROVE  /\ l = <<l[1], l[2]>>
           /\ l[1] \in Everything /\ l[2] \in Everything
           /\ l[2] \in Items(l[1])
BY AccessAssumption DEF Links, Everything, Items

LEMMA ItemLinks ==
    ASSUME NEW x \in Everything, NEW y \in Items(x)
    PROVE  <<x, y>> \in Links /\ y \in Everything
BY AccessAssumption DEF Links, Everything, Items

LEMMA NobodyHasNoItems == Items(Nobody) = {}
BY AccessAssumption DEF Items, Everything

LEMMA InitHolds == AccessInit => AccessInv
<1> SUFFICES ASSUME AccessInit PROVE AccessInv
  OBVIOUS
<1>1. AccessTypeOK
  BY AccessAssumption DEF AccessInit, AccessTypeOK, Edits, NoEdit, Everything
<1>2. LinksWhole
  <2> SUFFICES ASSUME NEW l \in links PROVE l[1] \in rows /\ l[2] \in rows
    BY DEF LinksWhole
  <2>1. l \in Links
    BY <1>1 DEF AccessTypeOK
  <2>2. l \in Touching(l[1]) /\ l \in Touching(l[2])
    BY DEF Touching
  <2> QED
    BY <2>1, <2>2, LinkParts DEF AccessInit
<1>3. ASSUME NEW h \in Editors PROVE EditInv(edit[h])
  BY DEF AccessInit, EditInv, NoEdit
<1> QED
  BY <1>1, <1>2, <1>3 DEF AccessInv

LEMMA BeginKeeps ==
    ASSUME AccessInv, NEW h \in Editors, NEW kind, NEW x \in Everything,
           NEW wanted \in SUBSET Everything, NEW named \in SUBSET Everything,
           kind \in {"create", "replace", "assign", "remove", "other", "delete"},
           BeginEdit(h, kind, x, wanted, named),
           kind # "delete" => /\ wanted \subseteq Items(x)
                              /\ wanted \subseteq Collection(x) \cup named,
           kind = "create" => Collection(x) = {},
           kind = "replace" => wanted = named,
           kind \in {"assign", "other"} => Collection(x) \subseteq wanted,
           kind = "remove" => Collection(x) \subseteq wanted \cup named
    PROVE  AccessInv'
<1> DEFINE loaded == IF kind = "delete" THEN Touching(x)
                     ELSE {x} \X Collection(x)
           new == [kind |-> kind, of |-> x, loaded |-> loaded,
                   wanted |-> wanted, named |-> named]
<1>1. loaded \in SUBSET Links
  BY ItemLinks DEF AccessInv, AccessTypeOK, Touching, Collection
<1>2. new \in Edits
  BY <1>1 DEF Edits
<1>3. edit' = [edit EXCEPT ![h] = new] /\ UNCHANGED <<rows, gone, links>>
      /\ edits' \in 0..MaxEdits
  BY AccessAssumption DEF BeginEdit, AccessInv, AccessTypeOK
<1>4. EditInv(new)
  <2>1. new.kind = kind /\ new.of = x /\ new.loaded = loaded
        /\ new.wanted = wanted /\ new.named = named
    OBVIOUS
  <2>2. x # Nobody
    BY AccessAssumption DEF Everything
  <2> HIDE DEF new
  <2>3. CASE kind = "delete"
    <3>1. loaded = Touching(x)
      BY <2>3
    <3> QED
      BY <2>1, <2>2, <2>3, <3>1 DEF EditInv, Touching
  <2>4. CASE kind # "delete"
    <3>1. loaded = {x} \X Collection(x)
      BY <2>4
    <3>2. Collection(x) \subseteq Items(x)
      BY DEF Collection
    <3>3. /\ loaded \subseteq {x} \X Items(x)
          /\ \A l \in loaded : l[2] \in Collection(x)
          /\ \A y \in Collection(x) : <<x, y>> \in loaded
          /\ Collection(x) = {} => loaded = {}
      BY <3>1, <3>2
    <3> HIDE DEF loaded
    <3> QED
      BY <2>1, <2>2, <2>4, <3>3 DEF EditInv
  <2> QED
    BY <2>3, <2>4
<1> HIDE DEF new
<1>5. AccessTypeOK'
  BY <1>2, <1>3 DEF AccessInv, AccessTypeOK
<1>6. LinksWhole'
  BY <1>3 DEF AccessInv, LinksWhole
<1>7. ASSUME NEW g \in Editors PROVE EditInv(edit'[g])
  <2>1. edit'[g] = IF g = h THEN new ELSE edit[g]
    BY <1>3 DEF AccessInv, AccessTypeOK
  <2> QED
    BY <2>1, <1>4 DEF AccessInv
<1>8. \A g \in Editors : EditInv(edit[g])'
  BY <1>7 DEF EditInv
<1> QED
  BY <1>5, <1>6, <1>8 DEF AccessInv

LEMMA CollectionLinks ==
    ASSUME NEW x
    PROVE  /\ Collection(x) \subseteq Items(x)
           /\ \A y \in Collection(x) : <<x, y>> \in links
BY DEF Collection

LEMMA RequestKeeps ==
    ASSUME AccessInv, NEW h \in Editors, AccessRequest(h)
    PROVE  AccessInv'
<1>1. PICK x \in Everything :
        \/ \E items \in SUBSET Items(x) : Replace(h, x, items)
                                          \/ CreateRow(h, x, items)
        \/ \E y \in Items(x) : Assign(h, x, y) \/ Unassign(h, x, y)
        \/ UpdateOther(h, x)
        \/ DeleteRow(h, x)
  BY DEF AccessRequest
<1>2. Items(x) \subseteq Everything /\ Collection(x) \subseteq Items(x)
  BY ItemLinks, CollectionLinks
<1>3. ASSUME NEW items \in SUBSET Items(x), Replace(h, x, items)
      PROVE  AccessInv'
  BY <1>2, <1>3, BeginKeeps DEF Replace
<1>4. ASSUME NEW items \in SUBSET Items(x), CreateRow(h, x, items)
      PROVE  AccessInv'
  <2>1. x \notin rows
    BY <1>4 DEF CreateRow
  <2>2. Collection(x) = {}
    BY <2>1 DEF Collection, AccessInv, LinksWhole
  <2> QED
    BY <1>2, <1>4, <2>2, BeginKeeps DEF CreateRow
<1>5. ASSUME NEW y \in Items(x), Assign(h, x, y)
      PROVE  AccessInv'
  BY <1>2, <1>5, BeginKeeps DEF Assign
<1>6. ASSUME NEW y \in Items(x), Unassign(h, x, y)
      PROVE  AccessInv'
  BY <1>2, <1>6, BeginKeeps DEF Unassign
<1>7. CASE UpdateOther(h, x)
  BY <1>2, <1>7, BeginKeeps DEF UpdateOther
<1>8. CASE DeleteRow(h, x)
  BY <1>2, <1>8, BeginKeeps DEF DeleteRow
<1> QED
  BY <1>1, <1>3, <1>4, <1>5, <1>6, <1>7, <1>8

\* What a commit that is not refused inserts, and what it deletes.
LEMMA Gives ==
    ASSUME AccessInv, NEW h \in Editors, edit[h].kind # "delete",
           NEW l \in Added(edit[h])
    PROVE  /\ l \in Links /\ l[1] = edit[h].of
           /\ l[2] \in edit[h].wanted /\ l[2] \in edit[h].named
<1> DEFINE e == edit[h]
<1>1. e \in Edits /\ EditInv(e)
  BY DEF AccessInv, AccessTypeOK
<1>2. PICK y \in e.wanted : l = <<e.of, y>> /\ l \notin e.loaded
  BY DEF Added
<1>3. e.of \in Everything
  <2>1. y \in Items(e.of)
    BY <1>1, <1>2 DEF EditInv
  <2> QED
    BY <1>1, <2>1, NobodyHasNoItems DEF Edits
<1> QED
  BY <1>1, <1>2, <1>3, ItemLinks DEF EditInv

LEMMA CommitKeeps ==
    ASSUME AccessInv, NEW h \in Editors, CommitEdit(h)
    PROVE  AccessInv'
<1> DEFINE e == edit[h]
<1>1. e \in Edits /\ EditInv(e) /\ e # NoEdit
  BY DEF AccessInv, AccessTypeOK, CommitEdit
<1>2. edit' = [edit EXCEPT ![h] = NoEdit] /\ edits' = edits
  BY DEF CommitEdit
<1>3. \A g \in Editors : EditInv(edit[g])'
  <2>1. ASSUME NEW g \in Editors PROVE EditInv(edit'[g])
    <3>1. EditInv(NoEdit)
      BY DEF EditInv, NoEdit
    <3>2. edit'[g] = IF g = h THEN NoEdit ELSE edit[g]
      BY <1>2 DEF AccessInv, AccessTypeOK
    <3> QED
      BY <3>1, <3>2 DEF AccessInv
  <2> QED
    BY <2>1 DEF EditInv
<1>4. edit' \in [Editors -> Edits] /\ edits' \in 0..MaxEdits
  BY <1>2 DEF AccessInv, AccessTypeOK, NoEdit, Edits
<1>5. CASE Refused(e)
  <2>1. UNCHANGED <<rows, gone, links>>
    BY <1>5 DEF CommitEdit
  <2> QED
    BY <1>3, <1>4, <2>1 DEF AccessInv, AccessTypeOK, LinksWhole
<1>6. CASE ~Refused(e) /\ e.kind = "delete"
  <2>1. /\ links' = links \ Touching(e.of) /\ rows' = rows \ {e.of}
        /\ gone' = gone \cup {e.of} /\ e.of \in rows
    BY <1>6 DEF CommitEdit, WriteDifference, Refused
  <2>2. AccessTypeOK'
    BY <1>4, <2>1 DEF AccessInv, AccessTypeOK
  <2>3. LinksWhole'
    BY <2>1 DEF AccessInv, LinksWhole, Touching
  <2> QED
    BY <1>3, <2>2, <2>3 DEF AccessInv
<1>7. CASE ~Refused(e) /\ e.kind # "delete"
  <2>1. /\ links' = (links \ Dropped(e)) \cup Added(e)
        /\ rows' = (IF e.kind = "create" THEN rows \cup {e.of} ELSE rows)
        /\ gone' = gone
    BY <1>7 DEF CommitEdit, WriteDifference
  <2>2. /\ e.of \in rows' /\ e.wanted \subseteq rows
    BY <1>7, <2>1 DEF Refused
  <2>3. \A l \in Added(e) : l \in Links /\ l[1] = e.of /\ l[2] \in e.wanted
    BY <1>7, Gives
  <2>4. e.of \in Everything
    <3>1. CASE e.kind = "create"
      <4>1. e.of # Nobody
        BY <1>1, <3>1 DEF EditInv
      <4> QED
        BY <1>1, <4>1 DEF Edits
    <3>2. CASE e.kind # "create"
      BY <2>1, <2>2, <3>2 DEF AccessInv, AccessTypeOK
    <3> QED
      BY <3>1, <3>2
  <2>5. AccessTypeOK'
    BY <1>4, <2>1, <2>3, <2>4 DEF AccessInv, AccessTypeOK
  <2>6. LinksWhole'
    <3> SUFFICES ASSUME NEW l \in links' PROVE {l[1], l[2]} \subseteq rows'
      BY DEF LinksWhole
    <3>1. CASE l \in links
      BY <2>1, <3>1 DEF AccessInv, LinksWhole
    <3>2. CASE l \in Added(e)
      BY <2>1, <2>2, <2>3, <3>2
    <3> QED
      BY <2>1, <3>1, <3>2
  <2> QED
    BY <1>3, <2>5, <2>6 DEF AccessInv
<1> QED
  BY <1>5, <1>6, <1>7

LEMMA StepHolds == AccessInv /\ [AccessNext]_accessVars => AccessInv'
<1> SUFFICES ASSUME AccessInv, [AccessNext]_accessVars PROVE AccessInv'
  OBVIOUS
<1>1. CASE AccessNext
  BY <1>1, RequestKeeps, CommitKeeps DEF AccessNext
<1>2. CASE UNCHANGED accessVars
  BY <1>2 DEF accessVars, AccessInv, AccessTypeOK, LinksWhole, EditInv
<1> QED
  BY <1>1, <1>2

LEMMA InvHolds == AccessSpec => []AccessInv
BY InitHolds, StepHolds, PTL DEF AccessSpec

\* Links join rows that exist, whatever is created and deleted meanwhile.
THEOREM LinksExist == AccessSpec => []LinksWhole
<1>1. AccessInv => LinksWhole
  BY DEF AccessInv
<1> QED
  BY <1>1, InvHolds, PTL

\* Rows, links and sessions keep their types.
THEOREM AccessTypeCorrect == AccessSpec => []AccessTypeOK
<1>1. AccessInv => AccessTypeOK
  BY DEF AccessInv
<1> QED
  BY <1>1, InvHolds, PTL

LEMMA CommitGives ==
    ASSUME AccessInv, NEW h \in Editors, CommitEdit(h),
           NEW l \in links' \ links
    PROVE  l[1] = edit[h].of /\ l[2] \in edit[h].named
<1>1. edit[h].kind # "delete" /\ l \in Added(edit[h])
  BY DEF CommitEdit, WriteDifference
<1> QED
  BY <1>1, Gives

LEMMA CommitTakes ==
    ASSUME AccessInv, NEW h \in Editors, CommitEdit(h),
           NEW l \in links \ links'
    PROVE  LET e == edit[h] IN
           \/ e.kind = "delete" /\ e.of \in {l[1], l[2]}
           \/ e.kind = "remove" /\ l[1] = e.of /\ l[2] \in e.named
           \/ e.kind = "replace" /\ l \in e.loaded \ ({e.of} \X e.named)
<1> DEFINE e == edit[h]
<1>1. e \in Edits /\ EditInv(e) /\ e # NoEdit
  BY DEF AccessInv, AccessTypeOK, CommitEdit
<1>2. l \in WriteDifference(e) => FALSE
  BY DEF CommitEdit
<1>3. CASE e.kind = "delete"
  BY <1>2, <1>3 DEF WriteDifference, Touching
<1>4. CASE e.kind # "delete"
  <2>1. l \in e.loaded /\ l \notin {e.of} \X e.wanted
    BY <1>2, <1>4 DEF WriteDifference, Dropped
  <2>2. l = <<e.of, l[2]>> /\ l[1] = e.of
    BY <1>1, <1>4, <2>1 DEF EditInv
  <2>3. l[2] \notin e.wanted
    BY <2>1, <2>2
  <2>4. CASE e.kind \in {"none", "assign", "other", "create"}
    BY <1>1, <2>1, <2>3, <2>4 DEF EditInv
  <2>5. CASE e.kind = "remove"
    BY <1>1, <2>1, <2>2, <2>3, <2>5 DEF EditInv
  <2>6. CASE e.kind = "replace"
    BY <1>1, <2>1, <2>6 DEF EditInv
  <2> QED
    BY <1>1, <1>4, <2>4, <2>5, <2>6 DEF Edits
<1> QED
  BY <1>3, <1>4

\* No request gives or takes a link it does not name, however old the
\* collection is that it loaded, for any number of overlapping requests.
THEOREM NamedOnly == AccessSpec => OnlyNamed
<1> DEFINE Named == \E h \in Editors :
          LET e == edit[h] IN
          /\ \A l \in links' \ links : l[1] = e.of /\ l[2] \in e.named
          /\ \A l \in links \ links' :
                \/ e.kind = "delete" /\ e.of \in {l[1], l[2]}
                \/ e.kind = "remove" /\ l[1] = e.of /\ l[2] \in e.named
                \/ e.kind = "replace" /\ l \in e.loaded \ ({e.of} \X e.named)
<1>1. AccessInv /\ [AccessNext]_accessVars => [Named]_<<rows, links>>
  <2> SUFFICES ASSUME AccessInv, AccessNext, ~UNCHANGED <<rows, links>>
               PROVE  Named
    BY DEF accessVars
  <2>1. PICK h \in Editors : AccessRequest(h) \/ CommitEdit(h)
    BY DEF AccessNext
  <2>2. CommitEdit(h)
    <3>1. ASSUME AccessRequest(h) PROVE UNCHANGED <<rows, links>>
      BY <3>1 DEF AccessRequest, Replace, CreateRow, Assign, Unassign,
                  UpdateOther, DeleteRow, BeginEdit
    <3> QED
      BY <2>1, <3>1
  <2> QED
    BY <2>2, CommitGives, CommitTakes
<1>2. OnlyNamed <=> [][Named]_<<rows, links>>
  BY DEF OnlyNamed
<1> QED
  BY <1>1, <1>2, InvHolds, PTL DEF AccessSpec
=============================================================================
