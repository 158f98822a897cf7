-------------------------- MODULE PageCacheProofs --------------------------
(***************************************************************************)
(* What PageCache does for every number of pages and slots, every window,  *)
(* every list of reads and any number of writes.  IInv is shown to be      *)
(* inductive, part by part.                                                *)
(***************************************************************************)
EXTENDS PageCache, TLAPS

(* Every page has a slot. *)
LEMMA IndexInSlot == \A p \in Page : page_index(p) \in Slot
BY PageAssumption, EntriesAssumption DEF page_index, Page, Slot

(* The bounds of the version counter and of ages. *)
LEMMA VersionFacts ==
    /\ Version \subseteq Nat /\ 0 \in Version
    /\ \A v \in Version : v < MaxVer => v + 1 \in Version
BY VerAssumption DEF Version

LEMMA AgeFacts ==
    /\ Age \subseteq Nat /\ 0 \in Age /\ Window + 1 \in Age /\ AllocAge \in Age
    /\ Window \in Nat
BY WindowAssumption, AllocAssumption DEF Age

(* Ages never leave their range. *)
LEMMA OlderInAge == \A a \in Age, d \in Ticks : Older(a, d) \in Age
BY WindowAssumption, TicksAssumption DEF Older, Age

(* update_validity and Overwrite keep the types of what they change. *)
LEMMA UpdateType ==
    ASSUME TypeOK, NEW d \in Ticks, update_validity(d)
    PROVE  age' \in [Slot -> Age] /\ lag' \in [Page -> [Version -> Age]]
<1>1. age' \in [Slot -> Age]
  BY OlderInAge DEF TypeOK, update_validity
<1>2. lag' \in [Page -> [Version -> Age]]
  BY OlderInAge DEF TypeOK, update_validity
<1> QED BY <1>1, <1>2

(* Likewise for a write to the backend. *)
LEMMA OverwriteType ==
    ASSUME TypeOK, NEW P \in SUBSET Page, NEW v \in Version, Overwrite(P, v)
    PROVE  mem' \in [Page -> Version] /\ lag' \in [Page -> [Version -> Age]]
<1>1. mem' \in [Page -> Version]
  BY DEF TypeOK, Overwrite
<1>2. lag' \in [Page -> [Version -> Age]]
  BY AgeFacts DEF TypeOK, Overwrite
<1> QED BY <1>1, <1>2

(* A list of pieces ends with the last piece of an item. *)
LEMMA RequestType ==
    ASSUME TypeOK
    PROVE  /\ req \in Seq(Piece) /\ Len(req) \in Nat
           /\ req # <<>> => req[Len(req)].last
           /\ \A i \in 1..Len(req) : req[i] \in Piece
<1>1. req \in Seq(Piece)
  BY RequestsAssumption DEF TypeOK
<1>2. req # <<>> => req[Len(req)].last
  BY RequestsAssumption DEF TypeOK
<1> QED BY <1>1, <1>2

(* While pieces are collected, the next one exists. *)
LEMMA AdvanceType ==
    ASSUME TypeOK, ListInv, pc = "collect", Advance
    PROVE  /\ req[next] \in Piece /\ next \in 1..Len(req)
           /\ next' \in 1..(Len(req') + 1)
           /\ pc' \in {"collect", "wlist"}
           /\ req[next].page \in Page
           /\ req' = req
           /\ pc' = "collect" => next' <= Len(req')
<1>1. next \in 1..Len(req) /\ Len(req) \in Nat
  BY RequestType DEF TypeOK, ListInv
<1>2. req[next] \in Piece
  BY <1>1, RequestType
<1>3. req' = req /\ next' = next + 1
  BY DEF Advance
<1>4. pc' \in {"collect", "wlist"}
  BY DEF Advance
<1>5. next' \in 1..(Len(req') + 1)
  BY <1>1, <1>3
<1>6. ASSUME pc' = "collect"
      PROVE  next' <= Len(req')
  <2>1. ~(req[next].last /\ next = Len(req))
    BY <1>6 DEF Advance
  <2>2. req # <<>>
    BY <1>1
  <2>3. next # Len(req)
    BY <2>1, <2>2, RequestType
  <2> QED BY <1>1, <1>3, <2>3
<1> QED BY <1>1, <1>2, <1>3, <1>4, <1>5, <1>6 DEF Piece

(* The pieces of the running read are pieces. *)
LEMMA PieceType ==
    ASSUME TypeOK
    PROVE  \A i \in 1..Len(req) : req[i].page \in Page /\ req[i].cached \in BOOLEAN
BY RequestType DEF Piece

(* What the backend holds is the content of a page. *)
LEMMA CurrentType ==
    ASSUME TypeOK
    PROVE  \A p \in Page : Current(p) \in Content /\ Current(p) \in [page : Page, ver : Version]
BY DEF TypeOK, Current, Content

(* A successful list read leaves contents in the chunks it covers. *)
LEMMA FilledType ==
    ASSUME TypeOK, NEW S
    PROVE  Filled(S) \in [1..Len(req) -> Content \cup {Unfilled}]
BY PieceType, CurrentType DEF Filled, TypeOK

(* Every step keeps the types. *)
LEMMA TypeStep ==
    ASSUME TypeOK, ListInv, WaitInv, [Next]_vars
    PROVE  TypeOK'
<1> USE IndexInSlot, VersionFacts, AgeFacts
<1>1. CASE ReadBegin
  <2>1. PICK r \in Requests, d \in Ticks :
            /\ update_validity(d)
            /\ req' = r
            /\ out' = [i \in 1..Len(r) |-> Unfilled]
            /\ pc' = IF r = <<>> THEN "return" ELSE "collect"
    BY <1>1 DEF ReadBegin
  <2>2. r \in Seq(Piece) /\ Len(r) \in Nat
    BY RequestsAssumption
  <2>3. age' \in [Slot -> Age] /\ lag' \in [Page -> [Version -> Age]]
    BY <2>1, UpdateType
  <2>4. wlist' = {} /\ wlistcache' = {} /\ clist' = {}
    BY <1>1 DEF ReadBegin, ListInv, lists
  <2>5. out' \in [1..Len(r) -> Content \cup {Unfilled}]
    BY <2>1
  <2>6. next' \in 1..(Len(r) + 1)
    BY <1>1, <2>2 DEF ReadBegin
  <2> QED BY <1>1, <2>1, <2>2, <2>3, <2>4, <2>5, <2>6 DEF ReadBegin, TypeOK, slots
<1>2. CASE Bypass
  BY <1>2, AdvanceType DEF Bypass, Advance, TypeOK, slots, backend
<1>3. CASE Hit
  BY <1>3, AdvanceType DEF Hit, Valid, Advance, TypeOK, slots, lists, backend
<1>4. CASE Revalidate
  BY <1>4, AdvanceType DEF Revalidate, Advance, TypeOK, backend
<1>5. CASE AwaitPage
  BY <1>5, AdvanceType DEF AwaitPage, Advance, TypeOK, slots, backend
<1>6. CASE Miss
  BY <1>6, AdvanceType DEF Miss, Advance, TypeOK, backend
<1>7. CASE ReadListOk
  <2>1. out' \in [1..Len(req) -> Content \cup {Unfilled}]
    BY <1>7, FilledType DEF ReadListOk, TypeOK
  <2> QED BY <1>7, <2>1 DEF ReadListOk, TypeOK, slots, backend
<1>8. CASE ReadListErr
  <2>1. out' \in [1..Len(req) -> Content \cup {Unfilled}]
    BY <1>8, FilledType DEF ReadListErr, TypeOK
  <2> QED BY <1>8, <2>1 DEF ReadListErr, ReturnErr, TypeOK, slots, backend
<1>9. CASE RefreshOk
  <2> DEFINE S == {page_index(p) : p \in wlistcache}
             PageOf(s) == CHOOSE p \in wlistcache : page_index(p) = s
  <2>1. \A s \in S : PageOf(s) \in Page /\ Current(PageOf(s)) \in Content
    BY CurrentType DEF TypeOK
  <2> HIDE DEF S, PageOf
  <2>2. /\ address' = [s \in Slot |-> IF s \in S THEN PageOf(s) ELSE address[s]]
        /\ page_refs' = [s \in Slot |-> IF s \in S THEN Current(PageOf(s)) ELSE page_refs[s]]
        /\ once' = [s \in Slot |-> IF s \in S THEN INVALID ELSE once[s]]
        /\ age' = [s \in Slot |-> IF s \in S THEN 0 ELSE age[s]]
    BY <1>9 DEF RefreshOk, S, PageOf
  <2>3. address' \in [Slot -> Page \cup {INVALID}]
    BY <2>1, <2>2 DEF TypeOK
  <2>4. page_refs' \in [Slot -> Content \cup {None}]
    BY <2>1, <2>2 DEF TypeOK
  <2>5. once' \in [Slot -> Page \cup {INVALID}]
    BY <2>2, SMTT(30) DEF TypeOK
  <2>6. age' \in [Slot -> Age]
    BY <2>2, AgeFacts, SMTT(30) DEF TypeOK
  <2>7. /\ pc' = "clist" /\ wlistcache' = {}
        /\ UNCHANGED <<backend, call, wlist, clist, write, result, lost, acked>>
    BY <1>9 DEF RefreshOk
  <2> QED BY <2>3, <2>4, <2>5, <2>6, <2>7, SMTT(30) DEF TypeOK, call, backend
<1>10. CASE RefreshErr
  BY <1>10, SMTT(60) DEF RefreshErr, ReturnErr, TypeOK, slots, backend
<1>11. CASE CopyOut
  <2>1. PICK i \in clist :
            /\ clist' = clist \ {i}
            /\ \/ Valid(req[i].page) /\ out' = [out EXCEPT ![i] = page_refs[page_index(req[i].page)]]
                  /\ UNCHANGED <<page_refs, lost>>
               \/ /\ page_refs' = [page_refs EXCEPT ![page_index(req[i].page)] = None]
                  /\ lost' \in {lost, lost \cup {page_index(req[i].page)}}
                  /\ UNCHANGED out
    BY <1>11 DEF CopyOut
  <2>2. req[i].page \in Page
    BY <2>1, PieceType DEF TypeOK
  <2> QED BY <1>11, <2>1, <2>2 DEF CopyOut, Valid, TypeOK, backend
<1>12. CASE FlushEnd
  BY <1>12 DEF FlushEnd, TypeOK, slots, call, lists, backend
<1>13. CASE Return
  <2>1. wlist = {} /\ clist = {}
    BY <1>13 DEF Return, ListInv
  <2>2. <<>> \in Seq(Piece) /\ Len(<<>>) = 0 /\ <<>> \in [1..0 -> Content \cup {Unfilled}]
    OBVIOUS
  <2> QED BY <1>13, <2>1, <2>2 DEF Return, TypeOK, slots, lists, backend
<1>14. CASE WriteBegin
  <2>1. PICK P \in WriteSets, cached \in BOOLEAN, d \in Ticks :
            /\ update_validity(d)
            /\ write' = [pages |-> P, cached |-> cached, ver |-> ver + 1]
    BY <1>14 DEF WriteBegin
  <2>2. age' \in [Slot -> Age] /\ lag' \in [Page -> [Version -> Age]]
    BY <2>1, UpdateType
  <2>3. P \in SUBSET Page /\ ver + 1 \in Version
    BY <1>14, WriteSetsAssumption DEF WriteBegin, TypeOK
  <2> QED BY <1>14, <2>1, <2>2, <2>3 DEF WriteBegin, TypeOK, slots, call, lists
<1>15. CASE UpdateCached
  BY <1>15 DEF UpdateCached, BufferAfterWrite, Valid, Content, TypeOK, call, lists
<1>16. CASE WriteOk
  BY <1>16, OverwriteType DEF WriteOk, NoWrite, TypeOK, slots, call, lists
<1>17. CASE WriteErr
  BY <1>17, OverwriteType DEF WriteErr, NoWrite, TypeOK, slots, call, lists
<1>18. CASE GuestWrite
  BY <1>18, OverwriteType DEF GuestWrite, TypeOK, slots, call, lists
<1>19. CASE Clone
  BY <1>19 DEF Clone, Content, TypeOK, call, lists, backend
<1>20. CASE UNCHANGED vars
  BY <1>20 DEF vars, TypeOK
<1> QED
  BY <1>1, <1>2, <1>3, <1>4, <1>5, <1>6, <1>7, <1>8, <1>9, <1>10, <1>11, <1>12,
     <1>13, <1>14, <1>15, <1>16, <1>17, <1>18, <1>19, <1>20
     DEF Next, ReadStep, WriteStep

(* Lists are used only by the steps they belong to. *)
LEMMA ListStep ==
    ASSUME TypeOK, ListInv, [Next]_vars
    PROVE  ListInv'
<1> USE DEF ListInv, Reading, lists, call, slots, backend
<1>1. CASE ReadBegin
  BY <1>1, RequestsAssumption DEF ReadBegin, TypeOK
<1>2. CASE Bypass
  BY <1>2, AdvanceType DEF Bypass, Advance
<1>3. CASE Hit
  BY <1>3, AdvanceType DEF Hit, Advance
<1>4. CASE Revalidate
  BY <1>4, AdvanceType DEF Revalidate, Advance
<1>5. CASE AwaitPage
  BY <1>5, AdvanceType DEF AwaitPage, Advance
<1>6. CASE Miss
  BY <1>6, AdvanceType DEF Miss, Advance
<1>7. CASE ReadListOk
  BY <1>7 DEF ReadListOk, call
<1>8. CASE ReadListErr
  BY <1>8 DEF ReadListErr, ReturnErr
<1>9. CASE RefreshOk
  BY <1>9 DEF RefreshOk, call
<1>10. CASE RefreshErr
  BY <1>10 DEF RefreshErr, ReturnErr
<1>11. CASE CopyOut
  BY <1>11 DEF CopyOut, call
<1>12. CASE FlushEnd
  BY <1>12 DEF FlushEnd, call, TypeOK
<1>13. CASE Return
  BY <1>13 DEF Return, call
<1>14. CASE WriteBegin
  BY <1>14 DEF WriteBegin, call
<1>15. CASE UpdateCached
  BY <1>15 DEF UpdateCached, call
<1>16. CASE WriteOk
  BY <1>16 DEF WriteOk, call
<1>17. CASE WriteErr
  BY <1>17 DEF WriteErr, call
<1>18. CASE GuestWrite
  BY <1>18 DEF GuestWrite, call
<1>19. CASE Clone
  BY <1>19 DEF Clone, call
<1>20. CASE UNCHANGED vars
  BY <1>20 DEF vars
<1> QED
  BY <1>1, <1>2, <1>3, <1>4, <1>5, <1>6, <1>7, <1>8, <1>9, <1>10, <1>11, <1>12,
     <1>13, <1>14, <1>15, <1>16, <1>17, <1>18, <1>19, <1>20
     DEF Next, ReadStep, WriteStep

(* The values that stand for no address and no buffer are none. *)
LEMMA InvalidFacts ==
    /\ INVALID \notin Page /\ None \notin Content /\ Unfilled \notin Content
    /\ Blank \in Content
BY ValueAssumption DEF Content

(* take_page never meets a buffer it has to drop: a slot that holds its    *)
(* buffer is not marked for validation.                                    *)
LEMMA TakenIsNotDropped ==
    ASSUME BufferInOnePlace, NEW p \in Page, Invalid(p)
    PROVE  page_refs[page_index(p)] = None
BY IndexInSlot DEF BufferInOnePlace, Invalid, Validatable

(* So a miss takes nothing out of its slot. *)
LEMMA MissKeepsSlots ==
    ASSUME TypeOK, ListInv, BufferInOnePlace, Miss
    PROVE  UNCHANGED <<slots, wlistcache, clist, lost, out>>
<1>1. req[next].page \in Page /\ page_index(req[next].page) \in Slot
  BY AdvanceType, IndexInSlot DEF Miss
<1>2. page_refs[page_index(req[next].page)] = None
  BY <1>1, TakenIsNotDropped DEF Miss
<1> QED BY <1>1, <1>2 DEF Miss, TypeOK, slots

(* Nor does copying a chunk out of its page: the page is valid, or it was  *)
(* dropped before and there is no buffer to take.                          *)
LEMMA CopyOutKeepsSlots ==
    ASSUME TypeOK, ListInv, WaitInv, BufferInOnePlace, CopyOut
    PROVE  /\ UNCHANGED <<slots, lost>>
           /\ \E i \in clist :
                 /\ clist' = clist \ {i}
                 /\ \/ /\ Valid(req[i].page)
                       /\ out' = [out EXCEPT ![i] = page_refs[page_index(req[i].page)]]
                    \/ ToBeValidated(req[i].page) /\ out' = out
<1>1. PICK i \in clist :
          /\ clist' = clist \ {i}
          /\ IF Valid(req[i].page)
             THEN /\ out' = [out EXCEPT ![i] = page_refs[page_index(req[i].page)]]
                  /\ UNCHANGED <<page_refs, lost>>
             ELSE /\ page_refs' = [page_refs EXCEPT ![page_index(req[i].page)] = None]
                  /\ lost' = IF page_refs[page_index(req[i].page)] # None
                             THEN lost \cup {page_index(req[i].page)} ELSE lost
                  /\ UNCHANGED out
  BY DEF CopyOut
<1>2. page_index(req[i].page) \in Slot
  BY PieceType, IndexInSlot DEF TypeOK
<1>3. UNCHANGED <<address, once>>
  BY DEF CopyOut
<1>4. CASE Valid(req[i].page)
  BY <1>1, <1>3, <1>4 DEF slots
<1>5. CASE ~Valid(req[i].page)
  <2>1. ToBeValidated(req[i].page)
    BY <1>5 DEF WaitInv
  <2>2. page_refs[page_index(req[i].page)] = None
    BY <2>1 DEF ToBeValidated
  <2>3. UNCHANGED <<page_refs, lost>> /\ out' = out
    BY <1>1, <1>2, <1>5, <2>2 DEF TypeOK
  <2> QED BY <1>1, <1>3, <2>1, <2>3 DEF slots
<1> QED BY <1>4, <1>5

(* Every step leaves each buffer in exactly one place. *)
LEMMA BufferStep ==
    ASSUME TypeOK, ListInv, WaitInv, BufferInOnePlace, [Next]_vars
    PROVE  BufferInOnePlace'
<1>1. CASE ReadBegin
  BY <1>1 DEF ReadBegin, BufferInOnePlace, slots, lists
<1>2. CASE Bypass
  BY <1>2 DEF Bypass, Advance, BufferInOnePlace, slots, lists
<1>3. CASE Hit
  BY <1>3 DEF Hit, Advance, BufferInOnePlace, slots, lists
<1>4. CASE Revalidate
  <2> DEFINE p == req[next].page
  <2>1. p \in Page /\ page_index(p) \in Slot
    BY <1>4, AdvanceType, IndexInSlot DEF Revalidate
  <2>2. Validatable(p)
    BY <1>4 DEF Revalidate
  <2>3. /\ page_refs' = [page_refs EXCEPT ![page_index(p)] = None]
        /\ once' = [once EXCEPT ![page_index(p)] = p]
        /\ wlistcache' = wlistcache \cup {p} /\ lost' = lost
    BY <1>4 DEF Revalidate
  <2> HIDE DEF p
  <2> QED BY <2>1, <2>2, <2>3, InvalidFacts DEF Validatable, BufferInOnePlace, TypeOK
<1>5. CASE AwaitPage
  BY <1>5 DEF AwaitPage, Advance, BufferInOnePlace, slots, lists
<1>6. CASE Miss
  BY <1>6, MissKeepsSlots DEF BufferInOnePlace, slots
<1>7. CASE ReadListOk
  BY <1>7 DEF ReadListOk, BufferInOnePlace, slots, lists
<1>8. CASE ReadListErr
  BY <1>8 DEF ReadListErr, ReturnErr, BufferInOnePlace, slots
<1>9. CASE RefreshOk
  <2> DEFINE S == {page_index(p) : p \in wlistcache}
             PageOf(s) == CHOOSE p \in wlistcache : page_index(p) = s
  <2>1. \A s \in S : PageOf(s) \in Page /\ Current(PageOf(s)) \in Content
    BY CurrentType DEF TypeOK
  <2>2. /\ page_refs' = [s \in Slot |-> IF s \in S THEN Current(PageOf(s)) ELSE page_refs[s]]
        /\ once' = [s \in Slot |-> IF s \in S THEN INVALID ELSE once[s]]
        /\ wlistcache' = {} /\ lost' = lost
    BY <1>9 DEF RefreshOk
  <2>3. \A s \in Slot : s \in S <=> \E p \in wlistcache : page_index(p) = s
    OBVIOUS
  <2> HIDE DEF S, PageOf
  <2> QED BY <2>1, <2>2, <2>3, InvalidFacts DEF BufferInOnePlace, TypeOK
<1>10. CASE RefreshErr
  BY <1>10 DEF RefreshErr, ReturnErr, BufferInOnePlace, slots
<1>11. CASE CopyOut
  BY <1>11, CopyOutKeepsSlots DEF CopyOut, BufferInOnePlace, slots
<1>12. CASE FlushEnd
  BY <1>12 DEF FlushEnd, BufferInOnePlace, slots, lists
<1>13. CASE Return
  BY <1>13 DEF Return, BufferInOnePlace, slots, lists
<1>14. CASE WriteBegin
  BY <1>14 DEF WriteBegin, BufferInOnePlace, slots, lists
<1>15. CASE UpdateCached
  <2>1. \A s \in Slot : page_refs'[s] = None <=> page_refs[s] = None
    <3>1. CASE ~write.cached
      BY <1>15, <3>1 DEF UpdateCached
    <3>2. CASE write.cached
      <4>1. \A s \in Slot, p \in write.pages :
                page_index(p) = s /\ Invalid(p) => page_refs[s] = None
        BY TakenIsNotDropped DEF TypeOK
      <4>2. \A s \in Slot, v \in Version : [page |-> address[s], ver |-> v] # None
                \/ ~\E p \in write.pages : page_index(p) = s /\ Valid(p)
        BY InvalidFacts DEF TypeOK, Valid, Content
      <4>3. write.ver \in Version
        BY DEF TypeOK
      <4> QED BY <1>15, <3>2, <4>1, <4>2, <4>3 DEF UpdateCached, BufferAfterWrite, Valid
    <3> QED BY <3>1, <3>2
  <2>2. lost' = lost /\ UNCHANGED <<once, wlistcache>>
    BY <1>15, <2>1 DEF UpdateCached, lists
  <2> QED BY <2>1, <2>2 DEF BufferInOnePlace
<1>16. CASE WriteOk
  BY <1>16 DEF WriteOk, BufferInOnePlace, slots, lists
<1>17. CASE WriteErr
  BY <1>17 DEF WriteErr, BufferInOnePlace, slots, lists
<1>18. CASE GuestWrite
  BY <1>18 DEF GuestWrite, BufferInOnePlace, slots, lists
<1>19. CASE Clone
  <2>1. wlistcache' = {}
    BY <1>19 DEF Clone, ListInv, lists
  <2> QED BY <1>19, <2>1, InvalidFacts DEF Clone, BufferInOnePlace, Content
<1>20. CASE UNCHANGED vars
  BY <1>20 DEF vars, BufferInOnePlace
<1> QED
  BY <1>1, <1>2, <1>3, <1>4, <1>5, <1>6, <1>7, <1>8, <1>9, <1>10, <1>11, <1>12,
     <1>13, <1>14, <1>15, <1>16, <1>17, <1>18, <1>19, <1>20
     DEF Next, ReadStep, WriteStep

(* Every chunk on clist keeps waiting for a page that is on its way, back, or dropped. *)
LEMMA WaitStep ==
    ASSUME TypeOK, ListInv, WaitInv, BufferInOnePlace, [Next]_vars
    PROVE  WaitInv'
<1>1. CASE ReadBegin
  BY <1>1 DEF ReadBegin, ListInv, lists, WaitInv
<1>2. CASE Bypass
  <2>1. pc = "collect" /\ UNCHANGED <<slots, wlistcache, clist, req>> /\ next' = next + 1
    BY <1>2, AdvanceType DEF Bypass, Advance, lists
  <2>2. \A i \in clist : ToBeValidated(req[i].page)' /\ i < next' /\ req[i].cached
    BY <2>1 DEF WaitInv, ToBeValidated, slots, TypeOK
  <2> QED BY <2>1, <2>2 DEF WaitInv, slots
<1>3. CASE Hit
  <2>1. pc = "collect" /\ UNCHANGED <<slots, wlistcache, clist, req>> /\ next' = next + 1
    BY <1>3, AdvanceType DEF Hit, Advance, lists
  <2>2. \A i \in clist : ToBeValidated(req[i].page)' /\ i < next' /\ req[i].cached
    BY <2>1 DEF WaitInv, ToBeValidated, slots, TypeOK
  <2> QED BY <2>1, <2>2 DEF WaitInv, slots
<1>4. CASE Revalidate
  <2>1. PICK p \in Page : p = req[next].page /\ page_index(p) \in Slot
    BY <1>4, AdvanceType, IndexInSlot DEF Revalidate
  <2>2. /\ pc = "collect" /\ req' = req /\ next' = next + 1 /\ req[next].cached
        /\ page_refs' = [page_refs EXCEPT ![page_index(p)] = None]
        /\ once' = [once EXCEPT ![page_index(p)] = p]
        /\ clist' = clist \cup {next} /\ wlistcache' = wlistcache \cup {p}
    BY <1>4, <2>1, AdvanceType DEF Revalidate, Advance
  <2>3. page_refs[page_index(p)] # None
    BY <1>4, <2>1 DEF Revalidate, Validatable
  <2>4. ToBeValidated(p)'
    BY <2>1, <2>2 DEF ToBeValidated, TypeOK
  <2>5. \A i \in clist' : ToBeValidated(req[i].page)' /\ i < next' /\ req[i].cached
    <3> TAKE i \in clist'
    <3>1. CASE i = next
      BY <2>1, <2>2, <2>4, <3>1, AdvanceType DEF TypeOK, ToBeValidated
    <3>2. CASE i # next
      <4>1. i \in clist /\ ToBeValidated(req[i].page) /\ i < next /\ req[i].cached
        BY <2>2, <3>2 DEF WaitInv
      <4>2. page_index(req[i].page) # page_index(p)
        BY <2>3, <4>1 DEF ToBeValidated
      <4> QED BY <2>2, <4>1, <4>2 DEF ToBeValidated, TypeOK
    <3> QED BY <3>1, <3>2
  <2>6. \A q \in wlistcache : page_index(q) # page_index(p)
    BY <2>1, <2>3 DEF BufferInOnePlace
  <2>7. \A q \in wlistcache' : once'[page_index(q)] = q
    <3> TAKE q \in wlistcache'
    <3>1. CASE q = p
      BY <2>1, <2>2, <3>1 DEF TypeOK
    <3>2. CASE q # p
      BY <2>1, <2>2, <2>6, <3>2 DEF TypeOK, WaitInv
    <3> QED BY <3>1, <3>2
  <2> QED BY <2>2, <2>5, <2>7 DEF WaitInv
<1>5. CASE AwaitPage
  <2>1. /\ pc = "collect" /\ UNCHANGED <<slots, wlistcache, req>> /\ next' = next + 1
        /\ clist' = clist \cup {next} /\ ToBeValidated(req[next].page) /\ req[next].cached
    BY <1>5, AdvanceType DEF AwaitPage, Advance
  <2>2. \A i \in clist' : ToBeValidated(req[i].page)' /\ i < next' /\ req[i].cached
    BY <2>1 DEF WaitInv, ToBeValidated, slots, TypeOK
  <2> QED BY <2>1, <2>2 DEF WaitInv, slots
<1>6. CASE Miss
  <2>1. pc = "collect" /\ UNCHANGED <<slots, wlistcache, clist, req>> /\ next' = next + 1
    BY <1>6, AdvanceType, MissKeepsSlots DEF Miss, Advance
  <2>2. \A i \in clist : ToBeValidated(req[i].page)' /\ i < next' /\ req[i].cached
    BY <2>1 DEF WaitInv, ToBeValidated, slots, TypeOK
  <2> QED BY <2>1, <2>2 DEF WaitInv, slots
<1>7. CASE ReadListOk
  <2>1. UNCHANGED <<slots, wlistcache, clist, req, next>> /\ pc = "wlist"
    BY <1>7 DEF ReadListOk
  <2> QED BY <2>1 DEF WaitInv, ToBeValidated, slots
<1>8. CASE ReadListErr
  BY <1>8 DEF ReadListErr, ReturnErr, WaitInv
<1>9. CASE RefreshOk
  <2> DEFINE S == {page_index(p) : p \in wlistcache}
             PageOf(s) == CHOOSE p \in wlistcache : page_index(p) = s
  <2>1. /\ address' = [s \in Slot |-> IF s \in S THEN PageOf(s) ELSE address[s]]
        /\ page_refs' = [s \in Slot |-> IF s \in S THEN Current(PageOf(s)) ELSE page_refs[s]]
        /\ once' = [s \in Slot |-> IF s \in S THEN INVALID ELSE once[s]]
        /\ age' = [s \in Slot |-> IF s \in S THEN 0 ELSE age[s]]
        /\ wlistcache' = {} /\ pc' = "clist" /\ pc = "wlistcache"
        /\ UNCHANGED <<clist, req, next>>
    BY <1>9 DEF RefreshOk, call
  <2>2. \A s \in S : PageOf(s) \in wlistcache /\ page_index(PageOf(s)) = s
    OBVIOUS
  <2>3. \A s \in S : PageOf(s) = once[s] /\ Current(PageOf(s)) # None
    BY <2>2, CurrentType, InvalidFacts DEF WaitInv, TypeOK
  <2> HIDE DEF S, PageOf
  <2>4. ASSUME NEW i \in clist
        PROVE  Valid(req[i].page)' \/ ToBeValidated(req[i].page)'
    <3>1. PICK p \in Page : p = req[i].page /\ page_index(p) \in Slot
      BY PieceType, IndexInSlot DEF TypeOK
    <3>2. page_refs[page_index(p)] = None /\ once[page_index(p)] = p
      BY <2>1, <3>1 DEF WaitInv, ToBeValidated
    <3>3. CASE page_index(p) \in S
      <4>1. Valid(p)'
        BY <2>1, <2>3, <3>1, <3>2, <3>3, AgeFacts DEF Valid
      <4> QED BY <2>1, <3>1, <4>1 DEF Valid, ToBeValidated
    <3>4. CASE page_index(p) \notin S
      <4>1. ToBeValidated(p)'
        BY <2>1, <3>1, <3>2, <3>4 DEF ToBeValidated
      <4> QED BY <2>1, <3>1, <4>1 DEF Valid, ToBeValidated
    <3> QED BY <3>3, <3>4
  <2> QED BY <2>1, <2>4 DEF WaitInv
<1>10. CASE RefreshErr
  BY <1>10 DEF RefreshErr, ReturnErr, WaitInv
<1>11. CASE CopyOut
  <2>1. UNCHANGED <<slots, age, req, next, pc, wlistcache>> /\ clist' \subseteq clist
    BY <1>11, CopyOutKeepsSlots DEF CopyOut
  <2> QED BY <2>1 DEF WaitInv, Valid, ToBeValidated, slots
<1>12. CASE FlushEnd
  BY <1>12 DEF FlushEnd, ListInv, lists, WaitInv
<1>13. CASE Return
  BY <1>13 DEF Return, ListInv, lists, WaitInv
<1>14. CASE WriteBegin
  BY <1>14 DEF WriteBegin, ListInv, lists, WaitInv
<1>15. CASE UpdateCached
  BY <1>15 DEF UpdateCached, ListInv, lists, WaitInv
<1>16. CASE WriteOk
  BY <1>16 DEF WriteOk, ListInv, lists, WaitInv
<1>17. CASE WriteErr
  BY <1>17 DEF WriteErr, ListInv, lists, WaitInv
<1>18. CASE GuestWrite
  <2>1. UNCHANGED <<slots, age, req, next, pc, wlistcache, clist>>
    BY <1>18 DEF GuestWrite, call, lists
  <2> QED BY <2>1 DEF WaitInv, Valid, ToBeValidated, slots
<1>19. CASE Clone
  BY <1>19 DEF Clone, ListInv, lists, WaitInv
<1>20. CASE UNCHANGED vars
  BY <1>20 DEF vars, WaitInv, Valid, ToBeValidated
<1> QED
  BY <1>1, <1>2, <1>3, <1>4, <1>5, <1>6, <1>7, <1>8, <1>9, <1>10, <1>11, <1>12,
     <1>13, <1>14, <1>15, <1>16, <1>17, <1>18, <1>19, <1>20
     DEF Next, ReadStep, WriteStep

(* A write to the backend keeps what was recent as recent: what it         *)
(* replaces has been replaced for no time at all.                          *)
LEMMA RecentOverwrite ==
    ASSUME TypeOK, NEW P \in SUBSET Page, NEW v \in Version, Overwrite(P, v)
    PROVE  \A c \in [page : Page, ver : Version], a \in Age : Recent(c, a) => Recent(c, a)'
<1> TAKE c \in [page : Page, ver : Version], a \in Age
<1> HAVE Recent(c, a)
<1>1. c.page \in Page /\ c.ver \in Version /\ lag[c.page] \in [Version -> Age]
  BY DEF TypeOK
<1>2. CASE c.page \notin P
  BY <1>1, <1>2 DEF Overwrite, Recent, TypeOK
<1>3. CASE c.page \in P /\ mem[c.page] = c.ver
  <2>1. lag'[c.page][c.ver] = 0
    BY <1>1, <1>3 DEF Overwrite
  <2> QED BY <2>1, AgeFacts DEF Recent
<1>4. CASE c.page \in P /\ mem[c.page] # c.ver
  <2>1. lag'[c.page][c.ver] = lag[c.page][c.ver]
    BY <1>1, <1>4 DEF Overwrite
  <2> QED BY <1>4, <2>1 DEF Recent
<1> QED BY <1>2, <1>3, <1>4

(* A later validator keeps the order of ages. *)
LEMMA OlderMonotone ==
    \A a, b \in Age, d \in Ticks : a <= b => Older(a, d) <= Older(b, d)
BY AgeFacts, TicksAssumption DEF Older

(* When the validator moves on by d, what was at most a out of date is at  *)
(* most a + d out of date.                                                 *)
LEMMA RecentUpdate ==
    ASSUME TypeOK, NEW d \in Ticks, update_validity(d), mem' = mem
    PROVE  \A c \in [page : Page, ver : Version], a \in Age :
               Recent(c, a) => Recent(c, Older(a, d))'
<1> TAKE c \in [page : Page, ver : Version], a \in Age
<1> HAVE Recent(c, a)
<1>1. c.page \in Page /\ c.ver \in Version /\ lag[c.page][c.ver] \in Age /\ d \in Nat
  BY TicksAssumption DEF TypeOK
<1>2. CASE mem[c.page] = c.ver
  BY <1>2 DEF Recent
<1>3. CASE mem[c.page] # c.ver
  <2>1. lag'[c.page][c.ver] = Older(lag[c.page][c.ver], d)
    BY <1>1, <1>3 DEF update_validity
  <2>2. Older(lag[c.page][c.ver], d) <= Older(a, d)
    <3>1. lag[c.page][c.ver] <= a
      BY <1>3 DEF Recent
    <3> QED BY <1>1, <3>1, OlderMonotone
  <2> QED BY <2>1, <2>2 DEF Recent
<1> QED BY <1>2, <1>3

(* A slot that is valid after the validator has moved on was valid before. *)
LEMMA OlderValid ==
    \A a \in Age, d \in Ticks : Older(a, d) <= Window => a <= Window
BY AgeFacts, TicksAssumption DEF Older

(* Acknowledged versions never get ahead of the backend or of the counter. *)
LEMMA BackendStep ==
    ASSUME TypeOK, BackendInv, [Next]_vars
    PROVE  BackendInv'
<1>1. CASE ReadBegin
  BY <1>1 DEF ReadBegin, BackendInv, backend
<1>2. CASE Bypass
  BY <1>2 DEF Bypass, Advance, BackendInv, backend
<1>3. CASE Hit
  BY <1>3 DEF Hit, Advance, BackendInv, backend
<1>4. CASE Revalidate
  BY <1>4 DEF Revalidate, Advance, BackendInv, backend
<1>5. CASE AwaitPage
  BY <1>5 DEF AwaitPage, Advance, BackendInv, backend
<1>6. CASE Miss
  BY <1>6 DEF Miss, Advance, BackendInv, backend
<1>7. CASE ReadListOk
  BY <1>7 DEF ReadListOk, BackendInv, backend
<1>8. CASE ReadListErr
  BY <1>8 DEF ReadListErr, ReturnErr, BackendInv, backend
<1>9. CASE RefreshOk
  BY <1>9 DEF RefreshOk, BackendInv, backend
<1>10. CASE RefreshErr
  BY <1>10 DEF RefreshErr, ReturnErr, BackendInv, backend
<1>11. CASE CopyOut
  BY <1>11 DEF CopyOut, BackendInv, backend
<1>12. CASE FlushEnd
  BY <1>12 DEF FlushEnd, BackendInv, backend
<1>13. CASE Return
  BY <1>13 DEF Return, BackendInv, backend
<1>14. CASE WriteBegin
  <2>1. UNCHANGED <<mem, acked>> /\ ver' = ver + 1 /\ write'.ver = ver + 1
    BY <1>14 DEF WriteBegin
  <2>2. ver \in Nat /\ \A p \in Page : acked[p] \in Nat /\ mem[p] \in Nat
    BY VersionFacts DEF TypeOK
  <2>3. \A p \in Page : acked[p] <= mem[p] /\ mem[p] <= ver
    BY DEF BackendInv
  <2> QED BY <2>1, <2>2, <2>3 DEF BackendInv
<1>15. CASE UpdateCached
  BY <1>15 DEF UpdateCached, BackendInv, backend
<1>16. CASE WriteOk
  <2>1. /\ \A p \in Page : mem'[p] = IF p \in write.pages THEN write.ver ELSE mem[p]
        /\ \A p \in Page : acked'[p] = IF write.cached /\ p \in write.pages
                                         THEN write.ver ELSE acked[p]
        /\ ver' = ver /\ pc' = "idle" /\ pc = "write"
    BY <1>16 DEF WriteOk, Overwrite
  <2>2. ver \in Nat /\ write.ver \in Nat /\ \A p \in Page : acked[p] \in Nat /\ mem[p] \in Nat
    BY VersionFacts DEF TypeOK
  <2>3. /\ \A p \in Page : acked[p] <= mem[p] /\ mem[p] <= ver /\ acked[p] <= write.ver
        /\ write.ver <= ver
    BY <2>1 DEF BackendInv
  <2> QED BY <2>1, <2>2, <2>3 DEF BackendInv
<1>17. CASE WriteErr
  BY <1>17, VersionFacts DEF WriteErr, Overwrite, BackendInv, TypeOK
<1>18. CASE GuestWrite
  <2>1. /\ \A p \in Page : mem'[p] = ver + 1 \/ mem'[p] = mem[p]
        /\ ver' = ver + 1 /\ UNCHANGED <<acked, pc, write>>
    BY <1>18 DEF GuestWrite, Overwrite
  <2>2. ver \in Nat /\ write.ver \in Nat /\ \A p \in Page : acked[p] \in Nat /\ mem[p] \in Nat
    BY VersionFacts DEF TypeOK
  <2>3. \A p \in Page : acked[p] <= mem[p] /\ mem[p] <= ver
    BY DEF BackendInv
  <2>4. pc \in {"update", "write"} =>
            write.ver <= ver /\ \A p \in Page : acked[p] <= write.ver
    BY DEF BackendInv
  <2> QED BY <2>1, <2>2, <2>3, <2>4 DEF BackendInv
<1>19. CASE Clone
  BY <1>19 DEF Clone, BackendInv, backend
<1>20. CASE UNCHANGED vars
  BY <1>20 DEF vars, BackendInv
<1> QED
  BY <1>1, <1>2, <1>3, <1>4, <1>5, <1>6, <1>7, <1>8, <1>9, <1>10, <1>11, <1>12,
     <1>13, <1>14, <1>15, <1>16, <1>17, <1>18, <1>19, <1>20
     DEF Next, ReadStep, WriteStep

(* Writing into the cached copies takes no buffer out of its slot. *)
LEMMA UpdateCachedKeepsBuffers ==
    ASSUME TypeOK, BufferInOnePlace, UpdateCached
    PROVE  /\ \A s \in Slot : page_refs'[s] = None <=> page_refs[s] = None
           /\ lost' = lost
<1>1. \A s \in Slot : page_refs'[s] = None <=> page_refs[s] = None
  <2>1. CASE ~write.cached
    BY <2>1 DEF UpdateCached
  <2>2. CASE write.cached
    <3>1. \A s \in Slot, p \in write.pages :
              page_index(p) = s /\ Invalid(p) => page_refs[s] = None
      BY TakenIsNotDropped DEF TypeOK
    <3>2. \A s \in Slot, v \in Version : [page |-> address[s], ver |-> v] # None
              \/ ~\E p \in write.pages : page_index(p) = s /\ Valid(p)
      BY InvalidFacts DEF TypeOK, Valid, Content
    <3>3. write.ver \in Version
      BY DEF TypeOK
    <3> QED BY <2>2, <3>1, <3>2, <3>3 DEF UpdateCached, BufferAfterWrite, Valid
  <2> QED BY <2>1, <2>2
<1>2. lost' = lost
  BY <1>1 DEF UpdateCached
<1> QED BY <1>1, <1>2

(* What a slot would serve stays recent and is never behind an acknowledged write. *)
LEMMA ServeStep ==
    ASSUME TypeOK, ListInv, WaitInv, BufferInOnePlace, BackendInv, ServeInv, [Next]_vars
    PROVE  ServeInv'
<1>1. CASE ReadBegin
  <2>1. PICK d \in Ticks : update_validity(d)
    BY <1>1 DEF ReadBegin
  <2>2. UNCHANGED <<slots, mem, acked>> /\ pc' # "write"
    BY <1>1 DEF ReadBegin
  <2>3. ASSUME NEW s \in Slot, page_refs[s] # None, address[s] # INVALID, age'[s] <= Window
        PROVE  /\ page_refs[s] \in [page : {address[s]}, ver : Version]
               /\ Recent(page_refs[s], age[s])'
               /\ page_refs[s].ver >= acked[address[s]]
    <3>1. age[s] \in Age /\ age'[s] = Older(age[s], d) /\ address[s] \in Page
      BY <2>1, <2>3 DEF update_validity, TypeOK
    <3>2. age[s] <= Window
      BY <2>3, <3>1, OlderValid
    <3>3. /\ page_refs[s] \in [page : {address[s]}, ver : Version]
          /\ Recent(page_refs[s], age[s])
          /\ page_refs[s].ver >= acked[address[s]]
      BY <2>3, <3>2 DEF ServeInv
    <3>4. PICK c \in [page : Page, ver : Version] : c = page_refs[s]
      BY <3>1, <3>3
    <3>5. Recent(c, age[s])
      BY <3>3, <3>4
    <3>6. PICK a : a = age[s] /\ a \in Age
      BY <3>1
    <3>7. Recent(c, Older(a, d))'
      BY <2>1, <2>2, <3>5, <3>6, RecentUpdate
    <3>8. Recent(page_refs[s], age[s])'
      BY <2>2, <3>1, <3>4, <3>6, <3>7 DEF Recent, slots
    <3> QED BY <3>3, <3>8
  <2> QED BY <2>2, <2>3 DEF ServeInv, slots
<1>2. CASE Bypass
  <2>1. UNCHANGED <<slots, age, mem, lag, acked, write>> /\ (pc' = "write" => pc = "write")
    BY <1>2 DEF Bypass, Advance, backend
  <2> QED BY <2>1 DEF ServeInv, Recent, slots
<1>3. CASE Hit
  <2>1. UNCHANGED <<slots, age, mem, lag, acked, write>> /\ (pc' = "write" => pc = "write")
    BY <1>3 DEF Hit, Advance, backend
  <2> QED BY <2>1 DEF ServeInv, Recent, slots
<1>4. CASE Revalidate
  <2>1. PICK t \in Slot : page_refs' = [page_refs EXCEPT ![t] = None]
    BY <1>4, AdvanceType, IndexInSlot DEF Revalidate
  <2>2. UNCHANGED <<address, age, mem, lag, acked, write>> /\ pc' # "write"
    BY <1>4 DEF Revalidate, Advance, backend
  <2>3. \A s \in Slot : page_refs'[s] # None => page_refs'[s] = page_refs[s]
    BY <2>1 DEF TypeOK
  <2> QED BY <2>2, <2>3 DEF ServeInv, Recent
<1>5. CASE AwaitPage
  <2>1. UNCHANGED <<slots, age, mem, lag, acked, write>> /\ (pc' = "write" => pc = "write")
    BY <1>5 DEF AwaitPage, Advance, backend
  <2> QED BY <2>1 DEF ServeInv, Recent, slots
<1>6. CASE Miss
  <2>1. UNCHANGED <<slots, age, mem, lag, acked, write>> /\ (pc' = "write" => pc = "write")
    BY <1>6, MissKeepsSlots DEF Miss, Advance, backend
  <2> QED BY <2>1 DEF ServeInv, Recent, slots
<1>7. CASE ReadListOk
  <2>1. UNCHANGED <<slots, age, mem, lag, acked, write>> /\ (pc' = "write" => pc = "write")
    BY <1>7 DEF ReadListOk, backend
  <2> QED BY <2>1 DEF ServeInv, Recent, slots
<1>8. CASE ReadListErr
  <2>1. UNCHANGED <<slots, age, mem, lag, acked, write>> /\ (pc' = "write" => pc = "write")
    BY <1>8 DEF ReadListErr, ReturnErr, backend
  <2> QED BY <2>1 DEF ServeInv, Recent, slots
<1>9. CASE RefreshOk
  <2> DEFINE S == {page_index(p) : p \in wlistcache}
             PageOf(s) == CHOOSE p \in wlistcache : page_index(p) = s
  <2>1. /\ address' = [s \in Slot |-> IF s \in S THEN PageOf(s) ELSE address[s]]
        /\ page_refs' = [s \in Slot |-> IF s \in S THEN Current(PageOf(s)) ELSE page_refs[s]]
        /\ age' = [s \in Slot |-> IF s \in S THEN 0 ELSE age[s]]
        /\ UNCHANGED <<mem, lag, acked>> /\ pc' # "write"
    BY <1>9 DEF RefreshOk, backend
  <2>2. \A s \in S : PageOf(s) \in Page /\ page_index(PageOf(s)) = s
    BY DEF TypeOK
  <2> HIDE DEF S, PageOf
  <2>3. ASSUME NEW s \in Slot, s \in S
        PROVE  /\ page_refs'[s] \in [page : {address'[s]}, ver : Version]
               /\ Recent(page_refs[s], age[s])'
               /\ page_refs'[s].ver >= acked[address'[s]]
               /\ page_index(address'[s]) = s
    BY <2>1, <2>2, <2>3 DEF Current, Recent, BackendInv, TypeOK
  <2>4. ASSUME NEW s \in Slot, s \notin S
        PROVE  /\ page_refs'[s] = page_refs[s] /\ address'[s] = address[s]
               /\ age'[s] = age[s]
    BY <2>1, <2>4
  <2>5. ASSUME NEW s \in Slot, s \notin S, page_refs[s] # None, address[s] # INVALID,
               age[s] <= Window
        PROVE  Recent(page_refs[s], age[s])'
    BY <2>1, <2>4, <2>5 DEF ServeInv, Recent
  <2> QED BY <2>1, <2>3, <2>4, <2>5 DEF ServeInv
<1>10. CASE RefreshErr
  <2>1. UNCHANGED <<slots, age, mem, lag, acked, write>> /\ (pc' = "write" => pc = "write")
    BY <1>10 DEF RefreshErr, ReturnErr, backend
  <2> QED BY <2>1 DEF ServeInv, Recent, slots
<1>11. CASE CopyOut
  <2>1. UNCHANGED <<slots, age, mem, lag, acked, write>> /\ (pc' = "write" => pc = "write")
    BY <1>11, CopyOutKeepsSlots DEF CopyOut, backend
  <2> QED BY <2>1 DEF ServeInv, Recent, slots
<1>12. CASE FlushEnd
  <2>1. UNCHANGED <<slots, age, mem, lag, acked, write>> /\ (pc' = "write" => pc = "write")
    BY <1>12 DEF FlushEnd, backend
  <2> QED BY <2>1 DEF ServeInv, Recent, slots
<1>13. CASE Return
  <2>1. UNCHANGED <<slots, age, mem, lag, acked, write>> /\ (pc' = "write" => pc = "write")
    BY <1>13 DEF Return, backend
  <2> QED BY <2>1 DEF ServeInv, Recent, slots
<1>14. CASE WriteBegin
  <2>1. PICK d \in Ticks : update_validity(d)
    BY <1>14 DEF WriteBegin
  <2>2. UNCHANGED <<slots, mem, acked>> /\ pc' # "write"
    BY <1>14 DEF WriteBegin
  <2>3. ASSUME NEW s \in Slot, page_refs[s] # None, address[s] # INVALID, age'[s] <= Window
        PROVE  /\ page_refs[s] \in [page : {address[s]}, ver : Version]
               /\ Recent(page_refs[s], age[s])'
               /\ page_refs[s].ver >= acked[address[s]]
    <3>1. age[s] \in Age /\ age'[s] = Older(age[s], d) /\ address[s] \in Page
      BY <2>1, <2>3 DEF update_validity, TypeOK
    <3>2. age[s] <= Window
      BY <2>3, <3>1, OlderValid
    <3>3. /\ page_refs[s] \in [page : {address[s]}, ver : Version]
          /\ Recent(page_refs[s], age[s])
          /\ page_refs[s].ver >= acked[address[s]]
      BY <2>3, <3>2 DEF ServeInv
    <3>4. PICK c \in [page : Page, ver : Version] : c = page_refs[s]
      BY <3>1, <3>3
    <3>5. Recent(c, age[s])
      BY <3>3, <3>4
    <3>6. PICK a : a = age[s] /\ a \in Age
      BY <3>1
    <3>7. Recent(c, Older(a, d))'
      BY <2>1, <2>2, <3>5, <3>6, RecentUpdate
    <3>8. Recent(page_refs[s], age[s])'
      BY <2>2, <3>1, <3>4, <3>6, <3>7 DEF Recent, slots
    <3> QED BY <3>3, <3>8
  <2> QED BY <2>2, <2>3 DEF ServeInv, slots
<1>15. CASE UpdateCached
  <2>1. /\ UNCHANGED <<mem, address, age, write, acked>> /\ pc' = "write" /\ pc = "update"
        /\ lag' = [p \in Page |-> IF p \in write.pages
                                 THEN [lag[p] EXCEPT ![write.ver] = 0] ELSE lag[p]]
    BY <1>15 DEF UpdateCached
  <2>2. write.ver \in Version /\ write.pages \subseteq Page
    BY DEF TypeOK
  <2>3. \A c \in [page : Page, ver : Version], a \in Age : Recent(c, a) => Recent(c, a)'
    BY <2>1, <2>2, AgeFacts DEF Recent, TypeOK
  <2>4. ASSUME NEW s \in Slot, page_refs'[s] # None, address[s] # INVALID, age[s] <= Window
        PROVE  /\ page_refs'[s] \in [page : {address[s]}, ver : Version]
               /\ Recent(page_refs[s], age[s])'
               /\ page_refs'[s].ver >= acked[address[s]]
               /\ write.cached /\ address[s] \in write.pages =>
                     page_refs'[s].ver = write.ver
    <3>1. address[s] \in Page /\ page_index(address[s]) = s /\ age[s] \in Age
      BY <2>4 DEF ServeInv, TypeOK
    <3>2. page_refs[s] # None
      BY <1>15, <2>4, UpdateCachedKeepsBuffers
    <3>3. Valid(address[s])
      BY <2>4, <3>1, <3>2 DEF Valid
    <3>4. CASE write.cached /\ address[s] \in write.pages
      <4>1. page_refs'[s] = [page |-> address[s], ver |-> write.ver]
        BY <1>15, <3>1, <3>3, <3>4 DEF UpdateCached, BufferAfterWrite
      <4>2. lag'[address[s]][write.ver] = 0
        BY <2>1, <2>2, <3>1, <3>4 DEF TypeOK
      <4>3. Recent(page_refs[s], age[s])'
        <5>1. page_refs'[s].page = address[s] /\ page_refs'[s].ver = write.ver
          BY <4>1
        <5>2. age' = age
          BY <2>1
        <5>3. 0 <= age[s]
          <6>1. age[s] \in Nat
            BY <3>1, AgeFacts
          <6> QED BY <6>1
        <5> QED BY <4>2, <5>1, <5>2, <5>3 DEF Recent
      <4>4. write.ver >= acked[address[s]]
        BY <2>1, <2>2, <3>1, VersionFacts DEF BackendInv, TypeOK
      <4> QED BY <2>2, <4>1, <4>3, <4>4
    <3>5. CASE ~(write.cached /\ address[s] \in write.pages)
      <4>1. page_refs'[s] = page_refs[s]
        <5>1. CASE ~write.cached
          BY <1>15, <5>1 DEF UpdateCached
        <5>2. CASE write.cached /\ address[s] \notin write.pages
          <6>1. ~\E p \in write.pages : page_index(p) = s /\ Valid(p)
            BY <5>2 DEF Valid
          <6>2. ~\E p \in write.pages : page_index(p) = s /\ Invalid(p)
            BY <2>2, <3>2, TakenIsNotDropped
          <6> QED BY <1>15, <5>2, <6>1, <6>2 DEF UpdateCached, BufferAfterWrite
        <5> QED BY <3>5, <5>1, <5>2
      <4>2. /\ page_refs[s] \in [page : {address[s]}, ver : Version]
            /\ Recent(page_refs[s], age[s])
            /\ page_refs[s].ver >= acked[address[s]]
        BY <2>4, <3>2 DEF ServeInv
      <4>3. PICK c \in [page : Page, ver : Version], a \in Age : c = page_refs[s] /\ a = age[s]
        BY <3>1, <4>2
      <4>4. Recent(c, a)'
        BY <2>3, <4>2, <4>3
      <4>5. Recent(page_refs[s], age[s])'
        BY <2>1, <4>1, <4>3, <4>4 DEF Recent
      <4> QED BY <3>5, <4>1, <4>2, <4>5
    <3> QED BY <3>4, <3>5
  <2> QED BY <2>1, <2>4 DEF ServeInv
<1>16. CASE WriteOk
  <2>1. PICK P \in SUBSET Page, v \in Version : Overwrite(P, v)
    BY <1>16 DEF WriteOk, TypeOK
  <2>2. UNCHANGED <<slots, age>> /\ pc' # "write"
    BY <1>16 DEF WriteOk
  <2>3. ASSUME NEW s \in Slot, page_refs[s] # None, address[s] # INVALID, age[s] <= Window
        PROVE  /\ page_refs[s] \in [page : {address[s]}, ver : Version]
               /\ Recent(page_refs[s], age[s])'
               /\ page_refs[s].ver >= acked'[address[s]]
    <3>1. address[s] \in Page /\ age[s] \in Age
      BY <2>3 DEF TypeOK
    <3>2. /\ page_refs[s] \in [page : {address[s]}, ver : Version]
          /\ Recent(page_refs[s], age[s])
          /\ page_refs[s].ver >= acked[address[s]]
          /\ pc = "write" /\ write.cached /\ address[s] \in write.pages =>
                page_refs[s].ver = write.ver
      BY <2>3 DEF ServeInv
    <3>3. PICK c \in [page : Page, ver : Version], a \in Age : c = page_refs[s] /\ a = age[s]
      BY <3>1, <3>2
    <3>4. Recent(c, a)'
      BY <2>1, <3>2, <3>3, RecentOverwrite
    <3>5. Recent(page_refs[s], age[s])'
      BY <2>2, <3>3, <3>4 DEF Recent, slots
    <3>6. page_refs[s].ver >= acked'[address[s]]
      <4>1. CASE write.cached /\ address[s] \in write.pages
        <5>1. acked'[address[s]] = write.ver /\ pc = "write"
          BY <1>16, <3>1, <4>1 DEF WriteOk
        <5>2. write.ver \in Nat
          BY VersionFacts DEF TypeOK
        <5> QED BY <3>2, <4>1, <5>1, <5>2
      <4>2. CASE ~(write.cached /\ address[s] \in write.pages)
        BY <1>16, <3>1, <3>2, <4>2 DEF WriteOk
      <4> QED BY <4>1, <4>2
    <3> QED BY <3>2, <3>5, <3>6
  <2> QED BY <2>2, <2>3 DEF ServeInv, slots
<1>17. CASE WriteErr
  <2>1. PICK P \in SUBSET Page, v \in Version : Overwrite(P, v)
    BY <1>17 DEF WriteErr, TypeOK
  <2>2. UNCHANGED <<slots, age>> /\ pc' # "write"
    BY <1>17 DEF WriteErr
  <2>3. ASSUME NEW s \in Slot, page_refs[s] # None, address[s] # INVALID, age[s] <= Window
        PROVE  /\ page_refs[s] \in [page : {address[s]}, ver : Version]
               /\ Recent(page_refs[s], age[s])'
               /\ page_refs[s].ver >= acked'[address[s]]
    <3>1. address[s] \in Page /\ age[s] \in Age
      BY <2>3 DEF TypeOK
    <3>2. /\ page_refs[s] \in [page : {address[s]}, ver : Version]
          /\ Recent(page_refs[s], age[s])
          /\ page_refs[s].ver >= acked[address[s]]
          /\ pc = "write" /\ write.cached /\ address[s] \in write.pages =>
                page_refs[s].ver = write.ver
      BY <2>3 DEF ServeInv
    <3>3. PICK c \in [page : Page, ver : Version], a \in Age : c = page_refs[s] /\ a = age[s]
      BY <3>1, <3>2
    <3>4. Recent(c, a)'
      BY <2>1, <3>2, <3>3, RecentOverwrite
    <3>5. Recent(page_refs[s], age[s])'
      BY <2>2, <3>3, <3>4 DEF Recent, slots
    <3>6. page_refs[s].ver >= acked'[address[s]]
      BY <1>17, <3>2 DEF WriteErr
    <3> QED BY <3>2, <3>5, <3>6
  <2> QED BY <2>2, <2>3 DEF ServeInv, slots
<1>18. CASE GuestWrite
  <2>1. PICK P \in SUBSET Page, v \in Version : Overwrite(P, v)
    BY <1>18, VersionFacts DEF GuestWrite, TypeOK
  <2>2. UNCHANGED <<slots, age>> /\ UNCHANGED <<pc, write>>
    BY <1>18 DEF GuestWrite
  <2>3. ASSUME NEW s \in Slot, page_refs[s] # None, address[s] # INVALID, age[s] <= Window
        PROVE  /\ page_refs[s] \in [page : {address[s]}, ver : Version]
               /\ Recent(page_refs[s], age[s])'
               /\ page_refs[s].ver >= acked'[address[s]]
    <3>1. address[s] \in Page /\ age[s] \in Age
      BY <2>3 DEF TypeOK
    <3>2. /\ page_refs[s] \in [page : {address[s]}, ver : Version]
          /\ Recent(page_refs[s], age[s])
          /\ page_refs[s].ver >= acked[address[s]]
          /\ pc = "write" /\ write.cached /\ address[s] \in write.pages =>
                page_refs[s].ver = write.ver
      BY <2>3 DEF ServeInv
    <3>3. PICK c \in [page : Page, ver : Version], a \in Age : c = page_refs[s] /\ a = age[s]
      BY <3>1, <3>2
    <3>4. Recent(c, a)'
      BY <2>1, <3>2, <3>3, RecentOverwrite
    <3>5. Recent(page_refs[s], age[s])'
      BY <2>2, <3>3, <3>4 DEF Recent, slots
    <3>6. page_refs[s].ver >= acked'[address[s]]
      BY <1>18, <3>2 DEF GuestWrite
    <3> QED BY <3>2, <3>5, <3>6
  <2> QED BY <2>2, <2>3 DEF ServeInv, slots
<1>19. CASE Clone
  BY <1>19 DEF Clone, ServeInv
<1>20. CASE UNCHANGED vars
  BY <1>20 DEF vars, ServeInv, Recent
<1> QED
  BY <1>1, <1>2, <1>3, <1>4, <1>5, <1>6, <1>7, <1>8, <1>9, <1>10, <1>11, <1>12,
     <1>13, <1>14, <1>15, <1>16, <1>17, <1>18, <1>19, <1>20
     DEF Next, ReadStep, WriteStep

(* A chunk that was given these bytes of page p meets both promises of a   *)
(* read: they are recent, and not behind an acknowledged write.            *)
Served(c, p) ==
    /\ c \in [page : {p}, ver : Version]
    /\ Recent(c, Window)
    /\ c.ver >= acked[p]

(* A valid slot serves its page. *)
LEMMA ValidServes ==
    ASSUME TypeOK, ServeInv
    PROVE  \A p \in Page : Valid(p) => Served(page_refs[page_index(p)], p)
<1> TAKE p \in Page
<1> HAVE Valid(p)
<1>1. /\ page_index(p) \in Slot /\ page_refs[page_index(p)] # None
      /\ address[page_index(p)] = p /\ p # INVALID /\ age[page_index(p)] <= Window
  BY IndexInSlot, InvalidFacts DEF Valid
<1>2. PICK c : c = page_refs[page_index(p)]
  OBVIOUS
<1>3. /\ c \in [page : {p}, ver : Version]
      /\ Recent(c, age[page_index(p)])
      /\ c.ver >= acked[p]
  BY <1>1, <1>2 DEF ServeInv
<1>4. lag[c.page][c.ver] \in Nat /\ age[page_index(p)] \in Nat /\ Window \in Nat
  <2>1. lag[c.page][c.ver] \in Age
    BY <1>3, SMTT(30) DEF TypeOK
  <2>2. age[page_index(p)] \in Age
    BY <1>1, SMTT(30) DEF TypeOK
  <2> QED BY <2>1, <2>2, AgeFacts
<1>5. Recent(c, Window)
  BY <1>1, <1>3, <1>4 DEF Recent
<1> QED BY <1>2, <1>3, <1>5 DEF Served

(* So does the backend. *)
LEMMA BackendServes ==
    ASSUME TypeOK, BackendInv
    PROVE  \A p \in Page : Served(Current(p), p)
BY VersionFacts DEF Served, Current, Recent, BackendInv, TypeOK

(* What every filled chunk of the running read satisfies. *)
LEMMA OutServed ==
    ASSUME BoundedStaleness, ReadYourWrites
    PROVE  \A i \in 1..Len(req) : out[i] # Unfilled => Served(out[i], req[i].page)
BY DEF BoundedStaleness, ReadYourWrites, Served

(* It is enough that every chunk that is new was served. *)
LEMMA OutStep ==
    ASSUME TypeOK, BoundedStaleness, ReadYourWrites,
           UNCHANGED <<mem, lag, acked, req>>,
           \A i \in 1..Len(req) :
               out'[i] # out[i] => out'[i] = Unfilled \/ Served(out'[i], req[i].page)
    PROVE  BoundedStaleness' /\ ReadYourWrites'
<1>1. \A i \in 1..Len(req) : out'[i] # Unfilled => Served(out'[i], req[i].page)
  BY OutServed
<1> QED BY <1>1 DEF Served, BoundedStaleness, ReadYourWrites, Recent

(* The window is itself an age. *)
LEMMA WindowInAge == Window \in Age
BY WindowAssumption DEF Age

(* Every chunk a step fills is served from a valid slot or from the backend. *)
LEMMA ReadStepServes ==
    ASSUME TypeOK, ListInv, WaitInv, BufferInOnePlace, BackendInv, ServeInv,
           BoundedStaleness, ReadYourWrites, [Next]_vars
    PROVE  BoundedStaleness' /\ ReadYourWrites'
<1>1. CASE ReadBegin
  BY <1>1 DEF ReadBegin, BoundedStaleness, ReadYourWrites
<1>2. CASE Bypass
  BY <1>2, OutStep DEF Bypass, Advance, backend
<1>3. CASE Hit
  <2>1. PICK p \in Page : p = req[next].page /\ Valid(p)
    BY <1>3, AdvanceType DEF Hit
  <2>2. out' = [out EXCEPT ![next] = page_refs[page_index(p)]]
    BY <1>3, <2>1 DEF Hit
  <2>3. Served(page_refs[page_index(p)], p)
    BY <2>1, ValidServes
  <2>4. UNCHANGED <<mem, lag, acked, req>>
    BY <1>3 DEF Hit, Advance, backend
  <2>5. \A i \in 1..Len(req) : out'[i] # out[i] => Served(out'[i], req[i].page)
    BY <2>1, <2>2, <2>3 DEF TypeOK
  <2> QED BY <2>4, <2>5, OutStep
<1>4. CASE Revalidate
  BY <1>4, OutStep DEF Revalidate, Advance, backend
<1>5. CASE AwaitPage
  BY <1>5, OutStep DEF AwaitPage, Advance, backend
<1>6. CASE Miss
  BY <1>6, MissKeepsSlots, OutStep DEF Miss, Advance, backend
<1>7. CASE ReadListOk
  <2>1. PICK S : out' = Filled(S)
    BY <1>7 DEF ReadListOk
  <2>2. UNCHANGED <<mem, lag, acked, req>>
    BY <1>7 DEF ReadListOk, backend
  <2>3. \A i \in 1..Len(req) : out'[i] # out[i] => Served(out'[i], req[i].page)
    BY <2>1, BackendServes, PieceType DEF Filled
  <2> QED BY <2>2, <2>3, OutStep
<1>8. CASE ReadListErr
  <2>1. PICK S : out' = Filled(S)
    BY <1>8 DEF ReadListErr
  <2>2. UNCHANGED <<mem, lag, acked, req>>
    BY <1>8 DEF ReadListErr, ReturnErr, backend
  <2>3. \A i \in 1..Len(req) : out'[i] # out[i] => Served(out'[i], req[i].page)
    BY <2>1, BackendServes, PieceType DEF Filled
  <2> QED BY <2>2, <2>3, OutStep
<1>9. CASE RefreshOk
  BY <1>9, OutStep DEF RefreshOk, call, backend
<1>10. CASE RefreshErr
  BY <1>10, OutStep DEF RefreshErr, ReturnErr, backend
<1>11. CASE CopyOut
  <2>1. UNCHANGED <<mem, lag, acked, req>>
    BY <1>11 DEF CopyOut, backend
  <2>2. \A i \in 1..Len(req) : out'[i] # out[i] => Served(out'[i], req[i].page)
    BY <1>11, CopyOutKeepsSlots, ValidServes, PieceType DEF TypeOK
  <2> QED BY <2>1, <2>2, OutStep
<1>12. CASE FlushEnd
  BY <1>12, OutStep DEF FlushEnd, call, backend
<1>13. CASE Return
  <2>1. 1..Len(req') = {}
    BY <1>13 DEF Return
  <2> QED BY <2>1 DEF BoundedStaleness, ReadYourWrites
<1>14. CASE WriteBegin
  <2>1. req' = <<>>
    BY <1>14 DEF WriteBegin, ListInv, Reading, call
  <2>2. 1..Len(req') = {}
    BY <2>1
  <2> QED BY <2>2 DEF BoundedStaleness, ReadYourWrites
<1>15. CASE UpdateCached
  <2>1. req' = <<>>
    BY <1>15 DEF UpdateCached, ListInv, Reading, call
  <2>2. 1..Len(req') = {}
    BY <2>1
  <2> QED BY <2>2 DEF BoundedStaleness, ReadYourWrites
<1>16. CASE WriteOk
  <2>1. req' = <<>>
    BY <1>16 DEF WriteOk, ListInv, Reading, call
  <2>2. 1..Len(req') = {}
    BY <2>1
  <2> QED BY <2>2 DEF BoundedStaleness, ReadYourWrites
<1>17. CASE WriteErr
  <2>1. req' = <<>>
    BY <1>17 DEF WriteErr, ListInv, Reading, call
  <2>2. 1..Len(req') = {}
    BY <2>1
  <2> QED BY <2>2 DEF BoundedStaleness, ReadYourWrites
<1>18. CASE GuestWrite
  <2>1. PICK P \in SUBSET Page, v \in Version : Overwrite(P, v)
    BY <1>18, VersionFacts DEF GuestWrite, TypeOK
  <2>2. UNCHANGED <<req, out, acked>>
    BY <1>18 DEF GuestWrite, call
  <2>3. \A c \in [page : Page, ver : Version] : Recent(c, Window) => Recent(c, Window)'
    BY <2>1, RecentOverwrite, WindowInAge
  <2>4. ASSUME NEW i \in 1..Len(req), out[i] # Unfilled
        PROVE  Recent(out[i], Window)'
    <3>1. PICK c \in [page : Page, ver : Version] : c = out[i] /\ Recent(c, Window)
      BY <2>4, PieceType DEF BoundedStaleness
    <3> QED BY <2>2, <2>3, <3>1 DEF Recent
  <2> QED BY <2>2, <2>4 DEF BoundedStaleness, ReadYourWrites
<1>19. CASE Clone
  <2>1. req' = <<>>
    BY <1>19 DEF Clone, ListInv, Reading, call
  <2>2. 1..Len(req') = {}
    BY <2>1
  <2> QED BY <2>2 DEF BoundedStaleness, ReadYourWrites
<1>20. CASE UNCHANGED vars
  BY <1>20, OutStep DEF vars
<1> QED
  BY <1>1, <1>2, <1>3, <1>4, <1>5, <1>6, <1>7, <1>8, <1>9, <1>10, <1>11, <1>12,
     <1>13, <1>14, <1>15, <1>16, <1>17, <1>18, <1>19, <1>20
     DEF Next, ReadStep, WriteStep

(* No step passes a piece without filling it, listing it, or finding it dropped. *)
LEMMA ProgressStep ==
    ASSUME TypeOK, ListInv, WaitInv, BufferInOnePlace, ProgressInv, [Next]_vars
    PROVE  ProgressInv'
<1>1. CASE ReadBegin
  <2>1. next' = 1
    BY <1>1 DEF ReadBegin, ListInv, Reading, call
  <2> QED BY <2>1 DEF ProgressInv
<1>2. CASE Bypass
  <2>1. /\ UNCHANGED <<req, result>> /\ next' = next + 1 /\ next \in 1..Len(req)
        /\ UNCHANGED <<slots, lost, out, clist>> /\ wlist' = wlist \cup {next}
    BY <1>2, AdvanceType DEF Bypass, Advance
  <2>2. \A i \in 1..Len(req) : i < next' => i < next \/ i = next
    BY <2>1
  <2>3. \A i \in 1..Len(req) : Dropped(i) => Dropped(i)'
    BY <2>1 DEF Dropped, slots
  <2> QED BY <2>1, <2>2, <2>3 DEF ProgressInv
<1>3. CASE Hit
  <2>1. /\ UNCHANGED <<req, result, slots, lost, wlist, clist>>
        /\ next' = next + 1 /\ next \in 1..Len(req)
        /\ out' = [out EXCEPT ![next] = page_refs[page_index(req[next].page)]]
        /\ req[next].page \in Page /\ Valid(req[next].page)
    BY <1>3, AdvanceType DEF Hit, Advance, lists
  <2>2. page_refs[page_index(req[next].page)] # Unfilled
    BY <2>1, IndexInSlot, InvalidFacts DEF Valid, TypeOK
  <2>3. \A i \in 1..Len(req) : i < next' => i < next \/ i = next
    BY <2>1
  <2>4. \A i \in 1..Len(req) : Dropped(i) => Dropped(i)'
    BY <2>1 DEF Dropped, slots
  <2>5. out'[next] # Unfilled /\ \A i \in 1..Len(req) : i # next => out'[i] = out[i]
    BY <2>1, <2>2 DEF TypeOK
  <2> QED BY <2>1, <2>3, <2>4, <2>5 DEF ProgressInv
<1>4. CASE Revalidate
  <2>1. PICK t \in Slot : /\ t = page_index(req[next].page) /\ page_refs[t] # None
                         /\ once' = [once EXCEPT ![t] = req[next].page]
    BY <1>4, AdvanceType, IndexInSlot DEF Revalidate, Validatable
  <2>2. /\ UNCHANGED <<req, result, lost, out, wlist>> /\ next' = next + 1
        /\ next \in 1..Len(req) /\ clist' = clist \cup {next}
    BY <1>4, AdvanceType DEF Revalidate, Advance
  <2>3. \A i \in 1..Len(req) : Dropped(i) => Dropped(i)'
    <3> TAKE i \in 1..Len(req)
    <3> HAVE Dropped(i)
    <3>1. page_index(req[i].page) \in Slot /\ page_index(req[i].page) # t
      BY <2>1, PieceType, IndexInSlot DEF Dropped, BufferInOnePlace
    <3> QED BY <2>1, <2>2, <3>1 DEF Dropped, TypeOK
  <2>4. \A i \in 1..Len(req) : i < next' => i < next \/ i = next
    BY <2>2
  <2> QED BY <2>2, <2>3, <2>4 DEF ProgressInv
<1>5. CASE AwaitPage
  <2>1. /\ UNCHANGED <<req, result>> /\ next' = next + 1 /\ next \in 1..Len(req)
        /\ UNCHANGED <<slots, lost, out, wlist>> /\ clist' = clist \cup {next}
    BY <1>5, AdvanceType DEF AwaitPage, Advance
  <2>2. \A i \in 1..Len(req) : i < next' => i < next \/ i = next
    BY <2>1
  <2>3. \A i \in 1..Len(req) : Dropped(i) => Dropped(i)'
    BY <2>1 DEF Dropped, slots
  <2> QED BY <2>1, <2>2, <2>3 DEF ProgressInv
<1>6. CASE Miss
  <2>1. /\ UNCHANGED <<req, result>> /\ next' = next + 1 /\ next \in 1..Len(req)
        /\ UNCHANGED <<slots, lost, out, clist>> /\ wlist' = wlist \cup {next}
    BY <1>6, AdvanceType, MissKeepsSlots DEF Miss, Advance
  <2>2. \A i \in 1..Len(req) : i < next' => i < next \/ i = next
    BY <2>1
  <2>3. \A i \in 1..Len(req) : Dropped(i) => Dropped(i)'
    BY <2>1 DEF Dropped, slots
  <2> QED BY <2>1, <2>2, <2>3 DEF ProgressInv
<1>7. CASE ReadListOk
  <2>1. /\ UNCHANGED <<req, next, result, slots, lost, clist>>
        /\ out' = Filled(wlist) /\ wlist' = {}
    BY <1>7 DEF ReadListOk
  <2>2. \A i \in 1..Len(req) : Current(req[i].page) # Unfilled
    BY PieceType, CurrentType, InvalidFacts
  <2>3. \A i \in 1..Len(req) : /\ i \in wlist => out'[i] # Unfilled
                               /\ i \notin wlist => out'[i] = out[i]
    BY <2>1, <2>2 DEF Filled
  <2> QED BY <2>1, <2>3 DEF ProgressInv, Dropped, slots
<1>8. CASE ReadListErr
  BY <1>8 DEF ReadListErr, ReturnErr, ProgressInv
<1>9. CASE RefreshOk
  <2>1. /\ UNCHANGED <<req, next, out, result, lost, wlist, clist>>
        /\ \A s \in Slot : s \in lost => once'[s] = once[s]
    BY <1>9 DEF RefreshOk, call, BufferInOnePlace
  <2>2. \A i \in 1..Len(req) : Dropped(i) => Dropped(i)'
    BY <2>1, PieceType, IndexInSlot DEF Dropped
  <2> QED BY <2>1, <2>2 DEF ProgressInv
<1>10. CASE RefreshErr
  BY <1>10 DEF RefreshErr, ReturnErr, ProgressInv
<1>11. CASE CopyOut
  <2>1. /\ UNCHANGED <<slots, lost, req, next, result, wlist>> /\ pc = "clist"
    BY <1>11, CopyOutKeepsSlots DEF CopyOut
  <2>2. PICK i \in clist :
            /\ clist' = clist \ {i}
            /\ \/ /\ Valid(req[i].page)
                  /\ out' = [out EXCEPT ![i] = page_refs[page_index(req[i].page)]]
               \/ ToBeValidated(req[i].page) /\ out' = out
    BY <1>11, CopyOutKeepsSlots
  <2>3. i \in 1..Len(req) /\ req[i].page \in Page /\ page_index(req[i].page) \in Slot
    BY PieceType, IndexInSlot DEF TypeOK
  <2>4. \A j \in 1..Len(req) : j # i => out'[j] = out[j]
    BY <2>2 DEF TypeOK
  <2>5. out'[i] # Unfilled \/ Dropped(i)
    <3>1. CASE Valid(req[i].page) /\ out' = [out EXCEPT ![i] = page_refs[page_index(req[i].page)]]
      BY <2>3, <3>1, InvalidFacts DEF Valid, TypeOK
    <3>2. CASE ToBeValidated(req[i].page)
      <4>1. page_index(req[i].page) \in lost
        BY <2>1, <2>3, <3>2 DEF ToBeValidated, BufferInOnePlace, ListInv
      <4> QED BY <2>3, <3>2, <4>1 DEF ToBeValidated, WaitInv, Dropped
    <3> QED BY <2>2, <3>1, <3>2
  <2> QED BY <2>1, <2>2, <2>4, <2>5 DEF ProgressInv, Dropped, slots
<1>12. CASE FlushEnd
  BY <1>12 DEF FlushEnd, call, lists, slots, ProgressInv, Dropped
<1>13. CASE Return
  <2>1. next' = 1
    BY <1>13 DEF Return, ListInv, Reading, call
  <2> QED BY <2>1 DEF ProgressInv
<1>14. CASE WriteBegin
  <2>1. next' = 1
    BY <1>14 DEF WriteBegin, ListInv, Reading, call
  <2> QED BY <2>1 DEF ProgressInv
<1>15. CASE UpdateCached
  <2>1. next' = 1
    BY <1>15 DEF UpdateCached, ListInv, Reading, call
  <2> QED BY <2>1 DEF ProgressInv
<1>16. CASE WriteOk
  <2>1. next' = 1
    BY <1>16 DEF WriteOk, ListInv, Reading, call
  <2> QED BY <2>1 DEF ProgressInv
<1>17. CASE WriteErr
  <2>1. next' = 1
    BY <1>17 DEF WriteErr, ListInv, Reading, call
  <2> QED BY <2>1 DEF ProgressInv
<1>18. CASE GuestWrite
  BY <1>18 DEF GuestWrite, call, lists, slots, ProgressInv, Dropped
<1>19. CASE Clone
  <2>1. next' = 1
    BY <1>19 DEF Clone, ListInv, Reading, call
  <2> QED BY <2>1 DEF ProgressInv
<1>20. CASE UNCHANGED vars
  BY <1>20 DEF vars, ProgressInv, Dropped
<1> QED
  BY <1>1, <1>2, <1>3, <1>4, <1>5, <1>6, <1>7, <1>8, <1>9, <1>10, <1>11, <1>12,
     <1>13, <1>14, <1>15, <1>16, <1>17, <1>18, <1>19, <1>20
     DEF Next, ReadStep, WriteStep

(* The initial state satisfies every part of the invariant. *)
LEMMA InitInv == Init => IInv
<1> HAVE Init
<1>1. TypeOK
  <2>1. out \in [1..Len(req) -> Content \cup {Unfilled}] /\ 1..Len(req) = {}
    BY DEF Init
  <2>2. next \in 1..(Len(req) + 1)
    BY DEF Init
  <2> QED BY <2>1, <2>2, VersionFacts, AgeFacts, InvalidFacts DEF Init, NoWrite, TypeOK
<1>2. BufferInOnePlace
  BY InvalidFacts DEF Init, BufferInOnePlace
<1>3. 1..Len(req) = {} /\ next = 1
  BY DEF Init
<1>4. BoundedStaleness /\ ReadYourWrites
  BY <1>3 DEF BoundedStaleness, ReadYourWrites
<1>5. ListInv /\ WaitInv
  BY DEF Init, ListInv, WaitInv, Reading
<1>6. ProgressInv
  BY <1>3 DEF ProgressInv
<1>7. ServeInv
  BY DEF Init, ServeInv
<1>8. BackendInv
  BY VersionFacts DEF Init, BackendInv
<1> QED BY <1>1, <1>2, <1>4, <1>5, <1>6, <1>7, <1>8 DEF IInv

(* Every step of the cache and of its environment keeps the invariant.     *)
LEMMA NextInv == IInv /\ [Next]_vars => IInv'
<1> SUFFICES ASSUME IInv, [Next]_vars PROVE IInv'
  OBVIOUS
<1>1. TypeOK' /\ ListInv' /\ BackendInv'
  BY TypeStep, ListStep, BackendStep DEF IInv
<1>2. BufferInOnePlace' /\ WaitInv'
  BY BufferStep, WaitStep DEF IInv
<1>3. ServeInv' /\ ProgressInv'
  BY ServeStep, ProgressStep DEF IInv
<1>4. BoundedStaleness' /\ ReadYourWrites'
  BY ReadStepServes DEF IInv
<1> QED BY <1>1, <1>2, <1>3, <1>4 DEF IInv

(* The inductive invariant, for every instance of the cache.               *)
THEOREM Invariance == Spec => []IInv
BY InitInv, NextInv, PTL DEF Spec

(* The state of PageCache and of the running operation keep their types:   *)
(* no index leaves the request, no buffer leaves the slots' contents.      *)
THEOREM TypeCorrect == Spec => []TypeOK
<1>1. IInv => TypeOK
  BY DEF IInv
<1> QED BY <1>1, Invariance, PTL

(* page_cache.rs:88-157 neither duplicates nor silently loses a buffer:    *)
(* each is in its slot, being revalidated, or was dropped by an error.     *)
THEOREM BufferOwnership == Spec => []BufferInOnePlace
<1>1. IInv => BufferInOnePlace
  BY DEF IInv
<1> QED BY <1>1, Invariance, PTL

(* No read returns another page's bytes, or bytes that were out of date    *)
(* for longer than the validator's window.                                 *)
THEOREM StalenessIsBounded == Spec => []BoundedStaleness
<1>1. IInv => BoundedStaleness
  BY DEF IInv
<1> QED BY <1>1, Invariance, PTL

(* A read after an acknowledged write through the cache sees that write,   *)
(* or a later one, whatever fails in between.                              *)
THEOREM WritesAreRead == Spec => []ReadYourWrites
<1>1. IInv => ReadYourWrites
  BY DEF IInv
<1> QED BY <1>1, Invariance, PTL

(* An Ok read leaves a chunk unfilled only in a slot whose buffer an       *)
(* earlier error dropped while that very page was being revalidated.       *)
THEOREM UnfilledMeansLost == Spec => []UnfilledOnlyWhereLost
<1>1. IInv => UnfilledOnlyWhereLost
  <2> SUFFICES ASSUME IInv, pc = "return", result = "Ok",
                      NEW i \in 1..Len(req), out[i] = Unfilled
               PROVE  Dropped(i)
    BY DEF UnfilledOnlyWhereLost, Dropped
  <2>1. wlist = {} /\ clist = {} /\ next = Len(req) + 1
    BY DEF IInv, ListInv
  <2>2. i < next
    BY <2>1, RequestType DEF IInv
  <2> QED BY <2>1, <2>2 DEF IInv, ProgressInv
<1> QED BY <1>1, Invariance, PTL

(* With a backend that never fails no buffer is ever dropped. *)
NothingLost == ~Faults => lost = {}

(* So an Ok read has filled every chunk: cached_memory_access.rs:5-9 holds *)
(* for every instance whose backend does not fail.                         *)
THEOREM FilledWithoutFaults == Spec => [](~Faults => OkReadIsFilled)
<1>1. Init => NothingLost
  BY DEF Init, NothingLost
<1>2. IInv /\ NothingLost /\ [Next]_vars => NothingLost'
  <2> SUFFICES ASSUME IInv, lost = {}, ~Faults, [Next]_vars PROVE lost' = {}
    BY DEF NothingLost
  <2>1. CASE Miss
    BY <2>1, MissKeepsSlots DEF IInv
  <2>2. CASE CopyOut
    BY <2>2, CopyOutKeepsSlots DEF IInv
  <2>3. CASE UpdateCached
    BY <2>3, UpdateCachedKeepsBuffers DEF IInv
  <2>4. CASE ReadListErr \/ RefreshErr
    BY <2>4 DEF ReadListErr, RefreshErr, ReturnErr
  <2>5. CASE Bypass \/ Hit \/ Revalidate \/ AwaitPage \/ ReadListOk \/ RefreshOk
             \/ FlushEnd \/ Return
    BY <2>5 DEF Bypass, Hit, Revalidate, AwaitPage, ReadListOk, RefreshOk, FlushEnd, Return
  <2>6. CASE ReadBegin \/ WriteBegin \/ WriteOk \/ WriteErr \/ GuestWrite \/ Clone
    BY <2>6 DEF ReadBegin, WriteBegin, WriteOk, WriteErr, GuestWrite, Clone
  <2>7. CASE UNCHANGED vars
    BY <2>7 DEF vars
  <2> QED BY <2>1, <2>2, <2>3, <2>4, <2>5, <2>6, <2>7 DEF Next, ReadStep, WriteStep
<1>3. UnfilledOnlyWhereLost /\ NothingLost => (~Faults => OkReadIsFilled)
  BY DEF UnfilledOnlyWhereLost, NothingLost, OkReadIsFilled
<1> QED BY <1>1, <1>2, <1>3, Invariance, UnfilledMeansLost, PTL DEF Spec
=============================================================================
