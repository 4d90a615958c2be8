------------------------ MODULE BuilderImageProofs ------------------------
(***************************************************************************)
(* Proofs about BuilderImage, for every set of tags, every set of types    *)
(* users give, and every number of changes, failed requests and commands.  *)
(***************************************************************************)
EXTENDS BuilderImage, SequenceTheorems, TLAPS

-----------------------------------------------------------------------------
(* Types and streams *)

\* The version of a type is a tag.
LEMMA VersionIsATag ==
    ASSUME NEW ty \in Types
    PROVE  VersionOf(ty) \in Tags
<1>1. PICK n \in 0..2 : ty.tags \in [1..n -> Tags]  BY DEF Types
<1>2. CASE n = 0
  <2>1. ty.tags = <<>>  BY <1>1, <1>2
  <2>. QED  BY <2>1, LatestIsATag DEF VersionOf
<1>3. CASE n # 0
  <2>1. ty.tags[1] \in Tags  BY <1>1, <1>3
  <2>. QED  BY <2>1, LatestIsATag DEF VersionOf
<1>. QED  BY <1>2, <1>3

LEMMA NoStreamIsAStream == NoStream \in Streams
BY DEF NoStream, Streams, Imports

\* What every stream is.
StreamOK(s) ==
    /\ s \in Streams
    /\ ~s.there => s = NoStream
    /\ s.builder = s.spec
    /\ \A t \in Tags : s.status[t] = "failed" => t \in s.spec

LEMMA StreamsAreOK ==
    ASSUME streams \in [Namespaces -> Streams],
           \A n \in Namespaces : ~streams[n].there => streams[n] = NoStream,
           StreamInv
    PROVE  \A n \in Namespaces : StreamOK(streams[n])
BY DEF StreamInv, StreamOK

\* The lists are asked for one after the other, of each kind in each namespace.
LEMMA ListStepsFacts ==
    /\ Len(ListSteps) = 4
    /\ \A i \in 1..4 : ListSteps[i].what \in ListNames /\ ListSteps[i].ns \in Namespaces
    /\ \A i, j \in 1..4 : ListSteps[i] = ListSteps[j] => i = j
    /\ \A i, j \in 1..4 : ListSteps[i].what = ListSteps[j].what
                            /\ ListSteps[i].ns = ListSteps[j].ns => i = j
    /\ \A w \in ListNames, n \in Namespaces :
         \E i \in 1..4 : ListSteps[i].what = w /\ ListSteps[i].ns = n
<1>1. 1..4 = {1, 2, 3, 4}  OBVIOUS
<1>2. Len(ListSteps) = 4  BY DEF ListSteps
<1>3. /\ ListSteps[1].what = "streams" /\ ListSteps[1].ns = "openshift"
      /\ ListSteps[2].what = "streams" /\ ListSteps[2].ns = "current"
      /\ ListSteps[3].what = "tags" /\ ListSteps[3].ns = "current"
      /\ ListSteps[4].what = "tags" /\ ListSteps[4].ns = "openshift"
  BY DEF ListSteps
<1>. QED  BY <1>1, <1>2, <1>3 DEF ListNames, Namespaces

-----------------------------------------------------------------------------
(* The inductive invariant, action by action *)

LEMMA NotReadFacts ==
    /\ NotRead \in [ListNames -> [Namespaces -> [ok : BOOLEAN, of : Streams]]]
    /\ \A i \in 1..4 : ~NotRead[ListSteps[i].what][ListSteps[i].ns].ok
<1>1. Unread \in [ok : BOOLEAN, of : Streams] /\ ~Unread.ok
  BY NoStreamIsAStream DEF Unread
<1>2. \A w \in ListNames : NotRead[w] = [n \in Namespaces |-> Unread]
  BY DEF ListNames, NotRead
<1>3. NotRead \in [ListNames -> [Namespaces -> [ok : BOOLEAN, of : Streams]]]
  <2>1. NotRead = [w \in ListNames |-> [n \in Namespaces |-> Unread]]
    BY DEF NotRead, ListNames
  <2>. QED  BY <1>1, <2>1
<1>. QED  BY <1>1, <1>2, <1>3, ListStepsFacts

\* When no list of the call has been answered there is nothing to say.
LEMMA ForgottenReadInv ==
    ASSUME read' = NotRead, pass'[2] = 1
    PROVE  ReadInv'
<1>1. \A i \in 1..4 : ~AnswerTo(i).ok'  BY NotReadFacts DEF AnswerTo
<1>. QED  BY <1>1 DEF ReadInv

LEMMA InitIInv == Init => IInv
<1>. SUFFICES ASSUME Init PROVE IInv  OBVIOUS
<1>. USE DEF Init
<1>1. /\ streams \in [Namespaces -> Streams]
      /\ \A n \in Namespaces : ~streams[n].there => streams[n] = NoStream
      /\ StreamInv
  <2>1. \A n \in Namespaces : StreamOK(streams[n])
    <3>1. SUFFICES ASSUME NEW n \in Namespaces PROVE StreamOK(streams[n])  OBVIOUS
    <3>2. CASE streams[n] = NoStream
      BY <3>2, NoStreamIsAStream DEF StreamOK, NoStream
    <3>3. CASE streams[n] # NoStream
      <4>1. PICK sp \in SUBSET Tags, h \in SUBSET Tags :
               streams[n] = [there |-> TRUE, spec |-> sp, builder |-> sp, hidden |-> h,
                  status |-> [t \in Tags |-> IF t \in sp THEN "imported" ELSE "absent"]]
        BY <3>3
      <4>2. [t \in Tags |-> IF t \in sp THEN "imported" ELSE "absent"] \in [Tags -> Imports]
        BY DEF Imports
      <4>. QED  BY <4>1, <4>2 DEF StreamOK, Streams
    <3>. QED  BY <3>2, <3>3
  <2>2. \A n \in Namespaces : streams[n] \in Streams  BY <2>1 DEF StreamOK
  <2>. QED  BY <2>1, <2>2 DEF StreamOK, StreamInv
<1>2. found \in Seq([ns : Namespaces, import : Imports \ {"absent"}]) /\ Len(found) = 0
  BY EmptySeq
<1>3. type \in Types  BY TypedAreTypes
<1>4. TypeOK  BY <1>1, <1>2, <1>3 DEF TypeOK
<1>5. TypeInv
  <2>1. pass \in (1..2) \X (1..5)  OBVIOUS
  <2>2. read \in [ListNames -> [Namespaces -> [ok : BOOLEAN, of : Streams]]]
    BY NotReadFacts
  <2>. QED  BY <2>1, <2>2 DEF TypeInv
<1>6. ReadInv /\ SearchInv /\ FoundInv  BY <1>2 DEF ReadInv, SearchInv, FoundInv
<1>7. AcceptedIsUsable /\ OneFailureTolerated /\ OfferedIsNotHidden
  BY DEF AcceptedIsUsable, OneFailureTolerated, OfferedIsNotHidden
<1>. QED  BY <1>1, <1>4, <1>5, <1>6, <1>7 DEF IInv

\* A change of a stream keeps what is known of streams; everything else is said
\* of commands during which nothing changes.
LEMMA ChangeIInv ==
    ASSUME IInv, NEW n \in Namespaces, NEW s, StreamOK(s), Change(n, s)
    PROVE  IInv'
<1>. USE DEF Change
<1>0. TypeOK /\ TypeInv /\ StreamInv /\ ReadInv /\ SearchInv /\ FoundInv  BY DEF IInv
<1>1. \A m \in Namespaces : StreamOK(streams[m])  BY <1>0, StreamsAreOK DEF TypeOK
<1>2. \A m \in Namespaces : StreamOK(streams'[m])  BY <1>0, <1>1 DEF TypeOK
<1>3. streams' \in [Namespaces -> Streams]  BY <1>0 DEF TypeOK, StreamOK
<1>4. TypeOK'  BY <1>0, <1>2, <1>3 DEF TypeOK, StreamOK
<1>5. TypeInv' /\ StreamInv'  BY <1>0, <1>2 DEF TypeInv, StreamInv, StreamOK
<1>6. ReadInv'  BY <1>0 DEF ReadInv, AnswerTo
<1>7. SearchInv' /\ FoundInv'  BY <1>0 DEF SearchInv, FoundInv
<1>8. AcceptedIsUsable' /\ OneFailureTolerated' /\ OfferedIsNotHidden'
  BY DEF AcceptedIsUsable, OneFailureTolerated, OfferedIsNotHidden
<1>. QED  BY <1>4, <1>5, <1>6, <1>7, <1>8 DEF IInv

LEMMA ClusterIInv == IInv /\ Cluster => IInv'
<1>. SUFFICES ASSUME IInv, Cluster PROVE IInv'  OBVIOUS
<1>1. \A m \in Namespaces : StreamOK(streams[m])  BY StreamsAreOK DEF IInv, TypeOK
<1>2. PICK n \in Namespaces :
         \/ \E spec \in SUBSET Tags \ {{}} : CreateStream(n, spec)
         \/ \E t \in Tags, result \in {"failed", "imported"} : ImportTag(n, t, result)
         \/ \E t \in Tags : PushTag(n, t) \/ Hide(n, t) \/ RemoveTag(n, t)
         \/ DeleteStream(n)
  BY DEF Cluster
<1>3. StreamOK(streams[n])  BY <1>1
<1>. USE <1>3 DEF StreamOK, Streams, Imports
<1>4. ASSUME NEW spec \in SUBSET Tags, CreateStream(n, spec) PROVE IInv'
  <2>. DEFINE s == [NoStream EXCEPT !.there = TRUE, !.spec = spec, !.builder = spec]
  <2>1. /\ s \in Streams /\ s.there /\ s.spec = spec /\ s.builder = spec
        /\ s.status = NoStream.status
    BY NoStreamIsAStream
  <2>2. StreamOK(s)  BY <2>1 DEF NoStream
  <2>. QED  BY <1>4, <2>2, ChangeIInv DEF CreateStream
<1>5. ASSUME NEW t \in Tags, NEW result \in {"failed", "imported"}, ImportTag(n, t, result)
      PROVE  IInv'
  <2>. DEFINE s == [streams[n] EXCEPT !.status[t] = result]
  <2>0. t \in streams[n].spec  BY <1>5 DEF ImportTag
  <2>1. /\ s \in Streams /\ s.there = streams[n].there /\ s.spec = streams[n].spec
        /\ s.builder = streams[n].builder
        /\ \A u \in Tags : s.status[u] = IF u = t THEN result ELSE streams[n].status[u]
    OBVIOUS
  <2>2. streams[n].there  BY <2>0 DEF NoStream
  <2>3. StreamOK(s)  BY <2>0, <2>1, <2>2
  <2>. QED  BY <1>5, <2>3, ChangeIInv DEF ImportTag
<1>6. ASSUME NEW t \in Tags, PushTag(n, t) PROVE IInv'
  <2>. DEFINE s == [streams[n] EXCEPT !.status[t] = "imported"]
  <2>1. /\ s \in Streams /\ s.there = streams[n].there /\ s.spec = streams[n].spec
        /\ s.builder = streams[n].builder
        /\ \A u \in Tags : s.status[u] = IF u = t THEN "imported" ELSE streams[n].status[u]
    OBVIOUS
  <2>2. streams[n].there  BY <1>6 DEF PushTag
  <2>3. StreamOK(s)  BY <2>1, <2>2
  <2>. QED  BY <1>6, <2>3, ChangeIInv DEF PushTag
<1>7. ASSUME NEW t \in Tags, Hide(n, t) PROVE IInv'
  <2>. DEFINE s == [streams[n] EXCEPT !.hidden = @ \cup {t}]
  <2>0. t \in streams[n].spec  BY <1>7 DEF Hide
  <2>1. streams[n].there  BY <2>0 DEF NoStream
  <2>2. StreamOK(s)  BY <2>0, <2>1
  <2>. QED  BY <1>7, <2>2, ChangeIInv DEF Hide
<1>8. ASSUME NEW t \in Tags, RemoveTag(n, t) PROVE IInv'
  <2>. DEFINE s == [streams[n] EXCEPT !.spec = @ \ {t}, !.builder = @ \ {t},
                      !.hidden = @ \ {t}, !.status[t] = "absent"]
  <2>0. t \in streams[n].spec  BY <1>8 DEF RemoveTag
  <2>1. /\ s \in Streams /\ s.there = streams[n].there
        /\ s.spec = streams[n].spec \ {t} /\ s.builder = streams[n].builder \ {t}
        /\ \A u \in Tags : s.status[u] = IF u = t THEN "absent" ELSE streams[n].status[u]
    OBVIOUS
  <2>2. streams[n].there  BY <2>0 DEF NoStream
  <2>3. StreamOK(s)  BY <2>1, <2>2
  <2>4. Change(n, s)  BY <1>8 DEF RemoveTag
  <2>. HIDE DEF s
  <2>. QED  BY <2>3, <2>4, ChangeIInv
<1>9. CASE DeleteStream(n)
  <2>1. StreamOK(NoStream)  BY NoStreamIsAStream DEF NoStream
  <2>. QED  BY <1>9, <2>1, ChangeIInv DEF DeleteStream
<1>. QED  BY <1>2, <1>4, <1>5, <1>6, <1>7, <1>8, <1>9

LEMMA StartIInv ==
    ASSUME IInv, NEW c \in {"create", "push", "catalog"}, NEW ty \in Typed, Start(c, ty)
    PROVE  IInv'
<1>. USE DEF Start, Forget
<1>1. TypeOK /\ TypeInv /\ StreamInv  BY DEF IInv
<1>2. found' \in Seq([ns : Namespaces, import : Imports \ {"absent"}]) /\ Len(found') = 0
  BY EmptySeq
<1>3. TypeOK'  BY <1>1, <1>2, TypedAreTypes DEF TypeOK
<1>4. TypeInv' /\ StreamInv'
  <2>1. pass' \in (1..2) \X (1..5)  OBVIOUS
  <2>2. read' \in [ListNames -> [Namespaces -> [ok : BOOLEAN, of : Streams]]]
    BY NotReadFacts
  <2>. QED  BY <1>1, <2>1, <2>2 DEF TypeInv, StreamInv
<1>5. ReadInv'  BY ForgottenReadInv
<1>6. SearchInv' /\ FoundInv'  BY <1>2 DEF SearchInv, FoundInv
<1>7. AcceptedIsUsable' /\ OneFailureTolerated' /\ OfferedIsNotHidden'
  BY DEF AcceptedIsUsable, OneFailureTolerated, OfferedIsNotHidden
<1>. QED  BY <1>1, <1>3, <1>4, <1>5, <1>6, <1>7 DEF IInv

\* A list is answered in full, or it is a fault and is taken for empty.
LEMMA ReadListIInv == IInv /\ ReadList => IInv'
<1>. SUFFICES ASSUME IInv, ReadList PROVE IInv'  OBVIOUS
<1>1. TypeOK /\ TypeInv /\ StreamInv /\ ReadInv  BY DEF IInv
<1>. DEFINE i == pass[2]
            w == ListSteps[i].what
            n == ListSteps[i].ns
<1>2. pc = "list" /\ i \in 1..4
  BY <1>1, ListStepsFacts DEF TypeInv, ReadList
<1>3. w \in ListNames /\ n \in Namespaces  BY <1>2, ListStepsFacts
<1>4. PICK ok \in BOOLEAN :
        /\ read' = [read EXCEPT ![w][n] =
                      [ok |-> ok, of |-> IF ok THEN streams[n] ELSE NoStream]]
        /\ faults' = IF ok THEN faults ELSE faults + 1
  BY DEF ReadList, Works, MayFail
<1>. DEFINE a == [ok |-> ok, of |-> IF ok THEN streams[n] ELSE NoStream]
<1>5. a \in [ok : BOOLEAN, of : Streams] /\ a.ok = ok /\ (ok => a.of = streams[n])
  BY <1>1, <1>3, NoStreamIsAStream DEF TypeOK
<1>6. pass' = [pass EXCEPT ![2] = i + 1] /\ pass' \in (1..2) \X (1..5) /\ pass'[2] = i + 1
  BY <1>1, <1>2 DEF ReadList, TypeInv
<1>7. UNCHANGED <<streams, pc, command, type, saved, found, offered, missing,
                  steady, changes, commands>>
  BY DEF ReadList
<1>8. read' \in [ListNames -> [Namespaces -> [ok : BOOLEAN, of : Streams]]]
  <2>. HIDE DEF a, w, n
  <2>. QED  BY <1>1, <1>3, <1>4, <1>5 DEF TypeInv, a
<1>9. \A j \in 1..4 : AnswerTo(j)' = IF j = i THEN a ELSE AnswerTo(j)
  <2>1. SUFFICES ASSUME NEW j \in 1..4
                 PROVE  AnswerTo(j)' = IF j = i THEN a ELSE AnswerTo(j)
    OBVIOUS
  <2>2. ListSteps[j].what \in ListNames /\ ListSteps[j].ns \in Namespaces
    BY ListStepsFacts
  <2>3. j # i => ListSteps[j].what # w \/ ListSteps[j].ns # n  BY <1>2, ListStepsFacts
  <2>4. read' = [read EXCEPT ![w][n] = a]  BY <1>4
  <2>. HIDE DEF a, w, n, i
  <2>5. CASE j = i
    <3>1. read'[w][n] = a  BY <1>1, <1>3, <2>4 DEF TypeInv
    <3>. QED  BY <2>5, <3>1 DEF AnswerTo, w, n
  <2>6. CASE j # i
    <3>1. read'[ListSteps[j].what][ListSteps[j].ns] = read[ListSteps[j].what][ListSteps[j].ns]
      BY <1>1, <1>3, <2>2, <2>3, <2>4, <2>6 DEF TypeInv
    <3>. QED  BY <2>6, <3>1 DEF AnswerTo
  <2>. QED  BY <2>5, <2>6
<1>. HIDE DEF a, w
<1>10. ReadInv'
  <2>1. steady' => \A j \in 1..4 :
           AnswerTo(j).ok' => AnswerTo(j).of' = streams'[ListSteps[j].ns]
    BY <1>1, <1>2, <1>5, <1>7, <1>9 DEF ReadInv
  <2>2. faults' = 0 => \A j \in 1..4 : j < pass'[2] => AnswerTo(j).ok'
    BY <1>1, <1>2, <1>4, <1>5, <1>6, <1>9 DEF ReadInv, TypeInv
  <2>3. faults' <= 1 => \A j, k \in 1..4 :
           j < pass'[2] /\ k < pass'[2] /\ ~AnswerTo(j).ok' /\ ~AnswerTo(k).ok' => j = k
    <3>1. CASE ok
      <4>1. faults' = faults  BY <1>4, <3>1
      <4>2. SUFFICES ASSUME faults' <= 1, NEW j \in 1..4, NEW k \in 1..4,
                            j < pass'[2], k < pass'[2],
                            ~AnswerTo(j).ok', ~AnswerTo(k).ok'
                     PROVE  j = k
        OBVIOUS
      <4>3. j # i /\ k # i  BY <1>5, <1>9, <3>1, <4>2
      <4>4. j < i /\ k < i  BY <1>2, <1>6, <4>2, <4>3
      <4>5. ~AnswerTo(j).ok /\ ~AnswerTo(k).ok  BY <1>9, <4>2, <4>3
      <4>. QED  BY <1>1, <1>2, <4>1, <4>2, <4>4, <4>5 DEF ReadInv
    <3>2. CASE ~ok
      <4>1. faults' <= 1 => faults = 0  BY <1>1, <1>4, <3>2 DEF TypeInv
      <4>. QED  BY <1>1, <1>2, <1>6, <1>9, <4>1 DEF ReadInv
    <3>. QED  BY <3>1, <3>2
  <2>. QED  BY <2>1, <2>2, <2>3 DEF ReadInv
<1>11. TypeOK' /\ StreamInv'  BY <1>1, <1>7 DEF TypeOK, StreamInv
<1>12. TypeInv'
  <2>1. faults' \in Nat  BY <1>1, <1>4 DEF TypeInv
  <2>. QED  BY <1>1, <1>6, <1>7, <1>8, <2>1 DEF TypeInv
<1>13. SearchInv'  BY <1>2, <1>7 DEF SearchInv, IInv
<1>14. faults' = 0 => faults = 0  BY <1>1, <1>4 DEF TypeInv
<1>15. FoundInv' BY <1>7, <1>14 DEF FoundInv, IInv
<1>16. AcceptedIsUsable' /\ OneFailureTolerated'
  BY <1>2, <1>7 DEF AcceptedIsUsable, OneFailureTolerated
<1>17. OfferedIsNotHidden'  BY <1>7, <1>14 DEF OfferedIsNotHidden, IInv
<1>. QED  BY <1>10, <1>11, <1>12, <1>13, <1>15, <1>16, <1>17 DEF IInv

\* What the four answers say when the last list has been read.
LEMMA AllRead ==
    ASSUME IInv, ListIsRead, steady
    PROVE  /\ \A w \in ListNames, n \in Namespaces : read[w][n].ok => read[w][n].of = streams[n]
           /\ faults = 0 => \A w \in ListNames, n \in Namespaces : read[w][n].ok
           /\ faults <= 1 => \A w, v \in ListNames, n, m \in Namespaces :
                ~read[w][n].ok /\ ~read[v][m].ok => w = v /\ n = m
<1>1. ReadInv /\ TypeInv  BY DEF IInv
<1>2. pc = "list" /\ \A i \in 1..4 : i < pass[2]
  BY <1>1, ListStepsFacts DEF ListIsRead, TypeInv
<1>3. \A w \in ListNames, n \in Namespaces : \E i \in 1..4 :
         ListSteps[i].what = w /\ ListSteps[i].ns = n /\ AnswerTo(i) = read[w][n]
  BY ListStepsFacts DEF AnswerTo
<1>4. \A w \in ListNames, n \in Namespaces : read[w][n].ok => read[w][n].of = streams[n]
  BY <1>1, <1>2, <1>3 DEF ReadInv
<1>5. faults = 0 => \A w \in ListNames, n \in Namespaces : read[w][n].ok
  BY <1>1, <1>2, <1>3 DEF ReadInv
<1>6. ASSUME faults <= 1, NEW w \in ListNames, NEW v \in ListNames,
             NEW n \in Namespaces, NEW m \in Namespaces,
             ~read[w][n].ok, ~read[v][m].ok
      PROVE  w = v /\ n = m
  <2>1. PICK i \in 1..4 : ListSteps[i].what = w /\ ListSteps[i].ns = n
                            /\ AnswerTo(i) = read[w][n]
    BY <1>3
  <2>2. PICK j \in 1..4 : ListSteps[j].what = v /\ ListSteps[j].ns = m
                            /\ AnswerTo(j) = read[v][m]
    BY <1>3
  <2>3. i = j  BY <1>1, <1>2, <1>6, <2>1, <2>2 DEF ReadInv
  <2>. QED  BY <2>1, <2>2, <2>3
<1>. QED  BY <1>4, <1>5, <1>6

LEMMA OfferImagesIInv == IInv /\ OfferImages => IInv'
<1>. SUFFICES ASSUME IInv, OfferImages PROVE IInv'  OBVIOUS
<1>. USE DEF OfferImages, Forget
<1>1. TypeOK /\ TypeInv /\ StreamInv  BY DEF IInv
<1>2. \A r : r \in [ListNames -> [Namespaces -> [ok : BOOLEAN, of : Streams]]] =>
         Offers(r) \subseteq [ns : Namespaces, tags : SUBSET Tags]
  <2>1. SUFFICES ASSUME NEW r \in [ListNames -> [Namespaces -> [ok : BOOLEAN, of : Streams]]],
                        NEW n \in Namespaces
                 PROVE  NonHidden(r, n) \in SUBSET Tags
    BY DEF Offers, Visible, Builders
  <2>2. "streams" \in ListNames  BY DEF ListNames
  <2>3. r.streams[n].of.spec \in SUBSET Tags  BY <2>2 DEF Streams
  <2>. QED  BY <2>3 DEF NonHidden
<1>3. offered' \subseteq [ns : Namespaces, tags : SUBSET Tags]  BY <1>1, <1>2 DEF TypeInv
<1>4. TypeOK'  BY <1>1, <1>3 DEF TypeOK
<1>5. TypeInv' /\ StreamInv'
  <2>1. pass' \in (1..2) \X (1..5)  OBVIOUS
  <2>2. read' \in [ListNames -> [Namespaces -> [ok : BOOLEAN, of : Streams]]]
    BY NotReadFacts
  <2>. QED  BY <1>1, <2>1, <2>2 DEF TypeInv, StreamInv
<1>6. ReadInv'  BY ForgottenReadInv
<1>7. SearchInv' /\ FoundInv'  BY DEF SearchInv, FoundInv, IInv
<1>8. AcceptedIsUsable' /\ OneFailureTolerated'
  BY DEF AcceptedIsUsable, OneFailureTolerated
<1>9. OfferedIsNotHidden'
  <2>1. SUFFICES ASSUME steady, faults = 0, NEW o \in Offers(read),
                        NEW t \in o.tags, t \in streams[o.ns].hidden,
                        NEW m \in Namespaces \ {o.ns}
                 PROVE  t \in streams[m].spec
    BY DEF OfferedIsNotHidden
  <2>2. "streams" \in ListNames /\ "tags" \in ListNames  BY DEF ListNames
  <2>3. \A n \in Namespaces : /\ read.streams[n].of = streams[n]
                              /\ read.tags[n].ok /\ read.tags[n].of = streams[n]
    BY <2>1, <2>2, AllRead
  <2>4. o.ns \in Namespaces /\ o.tags = NonHidden(read, o.ns)
    BY <2>1 DEF Offers, Visible, Builders
  <2>5. t \in streams[o.ns].spec /\ ~IsHidden(read, t)  BY <2>1, <2>3, <2>4 DEF NonHidden
  <2>. QED  BY <2>1, <2>3, <2>4, <2>5 DEF IsHidden, HasTag, Namespaces
<1>. QED  BY <1>4, <1>5, <1>6, <1>7, <1>8, <1>9 DEF IInv

\* What a check of the type accepts is in the spec of a stream it may mean, and
\* one failed list alone does not make it reject what both namespaces have.
LEMMA CheckFacts ==
    ASSUME IInv, ListIsRead, steady
    PROVE  /\ VersionExists(read, type) =>
                \E n \in Meant(type) : VersionOf(type) \in streams[n].spec
           /\ faults <= 1 /\ type.ns = None
                /\ (\A n \in Namespaces : VersionOf(type) \in streams[n].spec) =>
                ~ListFails(read) /\ TypeExists(read, type) /\ VersionExists(read, type)
<1>0. "streams" \in ListNames /\ "tags" \in ListNames
      /\ "current" \in Namespaces /\ "openshift" \in Namespaces
  BY DEF ListNames, Namespaces
<1>1. \A n \in Namespaces : /\ read.streams[n].ok => read.streams[n].of = streams[n]
                            /\ read.tags[n].ok => read.tags[n].of = streams[n]
  BY <1>0, AllRead
<1>2. VersionExists(read, type) =>
         \E n \in Meant(type) : VersionOf(type) \in streams[n].spec
  BY <1>1 DEF VersionExists, Builders
<1>3. ASSUME faults <= 1, type.ns = None,
             \A n \in Namespaces : VersionOf(type) \in streams[n].spec
      PROVE  ~ListFails(read) /\ TypeExists(read, type) /\ VersionExists(read, type)
  <2>1. \A w, v \in ListNames, n, m \in Namespaces :
           ~read[w][n].ok /\ ~read[v][m].ok => w = v /\ n = m
    BY <1>3, AllRead
  <2>2. PICK n \in Namespaces : read.streams[n].ok  BY <1>0, <2>1
  <2>3. \E m \in Namespaces : read.tags[m].ok  BY <1>0, <2>1
  <2>4. VersionOf(type) \in read.streams[n].of.spec /\ read.streams[n].of.builder # {}
    BY <1>1, <1>3, <2>2 DEF IInv, StreamInv
  <2>5. n \in Builders(read) /\ n \in Meant(type)
    BY <1>3, <2>2, <2>4 DEF Builders, Meant
  <2>. QED  BY <2>2, <2>3, <2>4, <2>5 DEF ListFails, TypeExists, VersionExists
<1>. QED  BY <1>2, <1>3

\* The rest of a check of the type.
LEMMA CheckTypeIInv == IInv /\ CheckType => IInv'
<1>. SUFFICES ASSUME IInv, CheckType PROVE IInv'  OBVIOUS
<1>. USE DEF CheckType, Forget
<1>1. TypeOK /\ TypeInv /\ StreamInv /\ pc = "list"  BY DEF IInv, ListIsRead
<1>2. read' = NotRead /\ pass'[2] = 1 /\ pass' \in (1..2) \X (1..5)  OBVIOUS
<1>3. pc' \in {"list", "rejected"}  BY <1>1
<1>4. TypeOK'  BY <1>1, <1>3 DEF TypeOK
<1>5. TypeInv' /\ StreamInv'  BY <1>1, <1>2, <1>3, NotReadFacts DEF TypeInv, StreamInv
<1>6. ReadInv'  BY <1>2, ForgottenReadInv
<1>7. SearchInv' /\ FoundInv'  BY <1>3 DEF SearchInv, FoundInv, IInv
<1>8. AcceptedIsUsable' /\ OfferedIsNotHidden'
  BY <1>3 DEF AcceptedIsUsable, OfferedIsNotHidden, IInv
<1>9. OneFailureTolerated'
  <2>1. pc' = "rejected" => ListFails(read) \/ ~TypeExists(read, type)  BY <1>1
  <2>. QED  BY <2>1, CheckFacts DEF OneFailureTolerated
<1>. QED  BY <1>4, <1>5, <1>6, <1>7, <1>8, <1>9 DEF IInv

\* A push that is accepted starts to look for its image with nothing found.
LEMMA CheckVersionIInv == IInv /\ CheckVersion => IInv'
<1>. SUFFICES ASSUME IInv, CheckVersion PROVE IInv'  OBVIOUS
<1>. USE DEF CheckVersion, Forget
<1>1. TypeOK /\ TypeInv /\ StreamInv /\ SearchInv /\ pc = "list"  BY DEF IInv, ListIsRead
<1>2. read' = NotRead /\ pass'[2] = 1 /\ pass' \in (1..2) \X (1..5)  OBVIOUS
<1>3. /\ pc' \in {"ended", "unresolved", "get", "rejected"}
      /\ pc' = "ended" => command = "create"
      /\ pc' = "get" => /\ command = "push" /\ saved' /\ Parses(type)
                        /\ VersionExists(read, type)
      /\ pc' = "unresolved" => ~Parses(type)
      /\ saved' \in BOOLEAN
  BY <1>1 DEF TypeInv, SearchInv
<1>4. TypeOK'  BY <1>1, <1>3 DEF TypeOK, Parses
<1>5. TypeInv' /\ StreamInv'  BY <1>1, <1>2, <1>3, NotReadFacts DEF TypeInv, StreamInv
<1>6. ReadInv'  BY <1>2, ForgottenReadInv
<1>7. found = <<>> /\ Len(found) = 0  BY <1>1 DEF SearchInv
<1>8. SearchInv'
  <2>1. pc' = "get" /\ steady => \E n \in Meant(type) : VersionOf(type) \in streams[n].spec
    BY <1>3, CheckFacts
  <2>. QED  BY <1>3, <1>7, <2>1 DEF SearchInv
<1>9. FoundInv'  BY DEF FoundInv, IInv
<1>10. AcceptedIsUsable' /\ OfferedIsNotHidden'
  BY <1>3 DEF AcceptedIsUsable, OfferedIsNotHidden, IInv
<1>11. OneFailureTolerated'
  <2>1. pc' = "rejected" => ListFails(read) \/ ~VersionExists(read, type)  BY <1>1
  <2>. QED  BY <2>1, CheckFacts DEF OneFailureTolerated
<1>. QED  BY <1>4, <1>5, <1>6, <1>8, <1>9, <1>10, <1>11 DEF IInv

-----------------------------------------------------------------------------
(* The search for the image *)

\* A step of the search leaves what is not about it alone.
SearchFrame ==
    /\ UNCHANGED <<streams, command, type, saved, read, pass, offered, steady>>
    /\ pc \in {"get", "fallback", "image"}
    /\ pc' \in {"get", "fallback", "image", "ended", "unresolved", "panic"}
    /\ faults' \in Nat /\ (faults' = 0 => faults = 0)
    /\ missing' \in BOOLEAN

LEMMA SearchKeeps ==
    ASSUME IInv, SearchFrame
    PROVE  /\ TypeInv' /\ StreamInv' /\ ReadInv'
           /\ OneFailureTolerated' /\ OfferedIsNotHidden'
<1>. USE DEF SearchFrame
<1>1. TypeInv'  BY DEF IInv, TypeInv
<1>2. StreamInv' /\ ReadInv'  BY DEF IInv, StreamInv, ReadInv
<1>3. OneFailureTolerated'  BY DEF OneFailureTolerated
<1>4. OfferedIsNotHidden'  BY DEF OfferedIsNotHidden, IInv
<1>. QED  BY <1>1, <1>2, <1>3, <1>4

\* A search that goes on, or ends, with what it had found.
LEMMA SameFoundIInv ==
    ASSUME IInv, SearchFrame, found' = found,
           pc' = "fallback" =>
             /\ type.ns = None /\ pc = "get"
             /\ steady /\ faults' = 0 => ~InStatus(streams["current"], VersionOf(type)),
           pc' = "image" => FALSE,
           pc' \in {"get", "ended"} => pc = "image" /\ found[1].import = "imported",
           AcceptedIsUsable'
    PROVE  IInv'
<1>. USE DEF SearchFrame
<1>1. TypeOK /\ SearchInv /\ FoundInv  BY DEF IInv
<1>2. TypeOK'  BY <1>1 DEF TypeOK
<1>3. SearchInv'  BY <1>1 DEF SearchInv
<1>4. FoundInv'  BY <1>1 DEF FoundInv
<1>. QED  BY <1>2, <1>3, <1>4, SearchKeeps DEF IInv

\* A search that finds the tag in the namespace where it is due.
LEMMA ResolveIInv ==
    ASSUME IInv, SearchFrame, pc # "image", NEW n \in Namespaces, Resolve(n, AfterStream),
           n \in Meant(type), InStatus(streams[n], VersionOf(type)),
           steady /\ faults' = 0 /\ type.ns = None /\ n = "openshift" =>
             ~InStatus(streams["current"], VersionOf(type))
    PROVE  IInv'
<1>. USE DEF SearchFrame
<1>. DEFINE Found == [ns : Namespaces, import : Imports \ {"absent"}]
            V == VersionOf(type)
            e == [ns |-> n, import |-> streams[n].status[V]]
<1>1. TypeOK /\ SearchInv /\ FoundInv  BY DEF IInv
<1>2. V \in Tags /\ streams[n] \in Streams  BY <1>1, VersionIsATag DEF TypeOK
<1>3. e \in Found  BY <1>2 DEF InStatus, Streams
<1>4. found \in Seq(Found) /\ Len(found) \in {0, 1}  BY <1>1 DEF TypeOK, SearchInv
<1>5. found' = Append(found, e) /\ pc' = AfterStream  BY DEF Resolve
<1>. HIDE DEF e
<1>6. /\ found' \in Seq(Found) /\ Len(found') = Len(found) + 1
      /\ found'[Len(found) + 1] = e /\ \A i \in 1..Len(found) : found'[i] = found[i]
  BY <1>3, <1>4, <1>5
<1>7. Len(found) \in {0, 1} /\ (Len(found) = 0 <=> found = <<>>)
  <2>1. found \in Seq(Found)  BY <1>4
  <2>. HIDE DEF Found
  <2>2. Len(found) = 0 <=> found = <<>>  BY <2>1, EmptySeq
  <2>. QED  BY <1>4, <2>2
<1>8. pc' = IF Len(found) = 1 THEN "ended" ELSE "image"  BY <1>5 DEF AfterStream
<1>9. TypeOK'  BY <1>1, <1>6, <1>7 DEF TypeOK
<1>10. found' # <<>>  BY <1>6, <1>7
<1>11. pc' = "image" => Len(found') = 1  BY <1>6, <1>7, <1>8
<1>12. pc' = "ended" => found'[1].import = "imported"
  <2>1. SUFFICES ASSUME pc' = "ended" PROVE found'[1].import = "imported"  OBVIOUS
  <2>2. Len(found) = 1 /\ found # <<>>  BY <1>7, <1>8, <2>1
  <2>3. found[1].import = "imported"  BY <1>1, <2>2 DEF SearchInv
  <2>4. found'[1] = found[1]  BY <1>6, <2>2
  <2>. QED  BY <2>3, <2>4
<1>13. SearchInv'
  <2>1. pc' \in {"image", "ended"}  BY <1>8
  <2>2. steady => \E m \in Meant(type) : V \in streams[m].spec  BY <1>1 DEF SearchInv
  <2>3. Len(found') \in {0, 1} \/ pc' # "image"  BY <1>11
  <2>. HIDE DEF V
  <2>. QED  BY <1>10, <1>12, <2>1, <2>2, <2>3 DEF SearchInv, V
<1>14. FoundInv'
  <2>1. SUFFICES ASSUME NEW i \in 1..Len(found')
                 PROVE  /\ found'[i].ns \in Meant(type)
                        /\ steady => found'[i].import = streams[found'[i].ns].status[V]
                        /\ steady /\ faults' = 0 /\ type.ns = None /\ found'[i].ns = "openshift" =>
                             ~InStatus(streams["current"], V)
    BY DEF FoundInv
  <2>2. CASE i \in 1..Len(found)  BY <1>1, <1>6, <2>2 DEF FoundInv
  <2>3. CASE i = Len(found) + 1
    <3>1. found'[i] = e  BY <1>6, <2>3
    <3>2. e.ns = n /\ e.import = streams[n].status[V]  BY DEF e
    <3>. QED  BY <3>1, <3>2
  <2>. QED  BY <1>4, <1>6, <1>7, <2>2, <2>3
<1>15. AcceptedIsUsable'  BY <1>8 DEF AcceptedIsUsable
<1>. QED  BY <1>9, <1>13, <1>14, <1>15, SearchKeeps DEF IInv

\* A namespace that is not there, or whose status has no such tag, is the only
\* one a type names: what was accepted is in its spec and not imported.
LEMMA GetStreamIInv == IInv /\ GetStream => IInv'
<1>. SUFFICES ASSUME IInv, GetStream PROVE IInv'  OBVIOUS
<1>. DEFINE n == FirstNamespace(type)
            V == VersionOf(type)
<1>1. TypeOK /\ TypeInv /\ SearchInv /\ pc = "get"  BY DEF IInv, GetStream
<1>2. type.ns \in Namespaces \cup {None}  BY <1>1 DEF TypeOK, Types
<1>3. n \in Namespaces /\ n \in Meant(type) /\ (type.ns = None => n = "current")
  BY <1>2 DEF FirstNamespace, Meant, Namespaces
<1>4. V \in Tags  BY <1>1, VersionIsATag DEF TypeOK
<1>5. SearchFrame
  <2>1. faults' = faults \/ faults' = faults + 1  BY DEF GetStream, Works, MayFail
  <2>2. faults' \in Nat /\ (faults' = 0 => faults = 0)  BY <1>1, <2>1 DEF TypeInv
  <2>3. pc' \in {"ended", "image", "fallback", "unresolved"} /\ missing' \in BOOLEAN
    BY DEF GetStream, Resolve, AfterStream, OrElse
  <2>. QED  BY <1>1, <2>2, <2>3 DEF SearchFrame, GetStream
<1>6. CASE Resolve(n, AfterStream) /\ InStatus(streams[n], V)
  <2>1. type.ns = None => n # "openshift"  BY <1>3
  <2>. HIDE DEF n, V
  <2>. QED  BY <1>1, <1>3, <1>5, <1>6, <2>1, ResolveIInv DEF V
<1>7. CASE /\ found' = found /\ pc' = OrElse(type)
           /\ \/ faults' # 0
              \/ ~streams[n].there
              \/ ~InStatus(streams[n], V)
  <2>1. ~streams[n].there => ~InStatus(streams[n], V) /\ streams[n].spec = {}
    BY <1>1, <1>3, <1>4 DEF TypeOK, NoStream, InStatus
  <2>2. pc' = "fallback" => type.ns = None
    BY <1>7 DEF OrElse
  <2>3. AcceptedIsUsable'
    <3>1. SUFFICES ASSUME pc' = "unresolved", steady, faults' = 0
                   PROVE  \E m \in Meant(type) :
                            V \in streams[m].spec /\ streams[m].status[V] # "imported"
      BY <1>5 DEF AcceptedIsUsable, SearchFrame
    <3>2. type.ns # None  BY <1>7, <3>1 DEF OrElse
    <3>3. Meant(type) = {n}  BY <3>2 DEF Meant, FirstNamespace
    <3>4. V \in streams[n].spec  BY <1>1, <3>1, <3>3 DEF SearchInv
    <3>5. ~InStatus(streams[n], V)  BY <1>7, <2>1, <3>1
    <3>. QED  BY <3>3, <3>4, <3>5 DEF InStatus
  <2>4. pc' = "fallback" /\ steady /\ faults' = 0 => ~InStatus(streams["current"], V)
    BY <1>3, <1>7, <2>1, <2>2
  <2>5. pc' \in {"fallback", "unresolved"}  BY <1>7 DEF OrElse
  <2>. QED  BY <1>1, <1>5, <1>7, <2>2, <2>3, <2>4, <2>5, SameFoundIInv
<1>8. \/ Resolve(n, AfterStream) /\ InStatus(streams[n], V)
      \/ /\ found' = found /\ pc' = OrElse(type)
         /\ \/ faults' # 0
            \/ ~streams[n].there
            \/ ~InStatus(streams[n], V)
  BY <1>1 DEF GetStream, Works, MayFail, TypeInv
<1>. QED  BY <1>6, <1>7, <1>8

\* Openshift is asked when the current project does not have the tag.
LEMMA GetFallbackIInv == IInv /\ GetFallback => IInv'
<1>. SUFFICES ASSUME IInv, GetFallback PROVE IInv'  OBVIOUS
<1>. DEFINE V == VersionOf(type)
<1>1. TypeOK /\ TypeInv /\ SearchInv /\ pc = "fallback"  BY DEF IInv, GetFallback
<1>2. /\ type.ns = None /\ Meant(type) = Namespaces /\ "openshift" \in Namespaces
      /\ "current" \in Namespaces
  BY <1>1 DEF SearchInv, Meant, Namespaces
<1>3. V \in Tags  BY <1>1, VersionIsATag DEF TypeOK
<1>4. SearchFrame
  BY <1>1 DEF SearchFrame, GetFallback, Resolve, AfterStream, Works, MayFail, TypeInv
<1>5. faults' = 0 => faults = 0  BY <1>4 DEF SearchFrame
<1>6. steady /\ faults' = 0 => ~InStatus(streams["current"], V)
  BY <1>1, <1>5 DEF SearchInv
<1>7. CASE Resolve("openshift", AfterStream) /\ InStatus(streams["openshift"], V)
  <2>. HIDE DEF V
  <2>. QED  BY <1>1, <1>2, <1>4, <1>6, <1>7, ResolveIInv DEF V
<1>8. CASE /\ found' = found /\ pc' \in {"unresolved", "panic"}
           /\ \/ faults' # 0
              \/ ~streams["openshift"].there
              \/ ~InStatus(streams["openshift"], V)
  <2>1. ~streams["openshift"].there => ~InStatus(streams["openshift"], V)
    BY <1>1, <1>2, <1>3 DEF TypeOK, NoStream, InStatus
  <2>2. AcceptedIsUsable'
    <3>1. SUFFICES ASSUME pc' = "unresolved", steady, faults' = 0
                   PROVE  \E m \in Meant(type) :
                            V \in streams[m].spec /\ streams[m].status[V] # "imported"
      BY <1>4 DEF AcceptedIsUsable, SearchFrame
    <3>2. PICK m \in Namespaces : V \in streams[m].spec
      BY <1>1, <1>2, <3>1 DEF SearchInv
    <3>3. ~InStatus(streams[m], V)  BY <1>6, <1>8, <2>1, <3>1 DEF Namespaces
    <3>. QED  BY <1>2, <3>2, <3>3 DEF InStatus
  <2>. QED  BY <1>1, <1>4, <1>8, <2>2, SameFoundIInv
<1>9. \/ Resolve("openshift", AfterStream) /\ InStatus(streams["openshift"], V)
      \/ /\ found' = found /\ pc' \in {"unresolved", "panic"}
         /\ \/ faults' # 0
            \/ ~streams["openshift"].there
            \/ ~InStatus(streams["openshift"], V)
  BY <1>1 DEF GetFallback, Works, MayFail, TypeInv
<1>. QED  BY <1>7, <1>8, <1>9

\* An entry without items is that of a tag of the spec whose import failed.
LEMMA GetImageIInv == IInv /\ GetImage => IInv'
<1>. SUFFICES ASSUME IInv, GetImage PROVE IInv'  OBVIOUS
<1>. DEFINE V == VersionOf(type)
<1>1. /\ TypeOK /\ TypeInv /\ StreamInv /\ SearchInv /\ FoundInv
      /\ pc = "image" /\ found' = found
  BY DEF IInv, GetImage
<1>2. SearchFrame
  BY <1>1 DEF SearchFrame, GetImage, Works, MayFail, TypeInv
<1>3. V \in Tags  BY <1>1, VersionIsATag DEF TypeOK
<1>4. \/ pc' \in {"ended", "get"} /\ found[1].import = "imported"
      \/ pc' = "unresolved" /\ (found[1].import # "imported" \/ faults' # 0)
  <2>1. faults' = faults + 1 => faults' # 0  BY <1>1 DEF TypeInv
  <2>. QED  BY <2>1 DEF GetImage, MayFail
<1>5. Len(found) = 1 /\ 1 \in 1..Len(found)
  <2>. DEFINE Found == [ns : Namespaces, import : Imports \ {"absent"}]
  <2>1. found \in Seq(Found) /\ found # <<>> /\ Len(found) \in {0, 1}
    BY <1>1 DEF TypeOK, SearchInv
  <2>. HIDE DEF Found
  <2>2. Len(found) # 0  BY <2>1, EmptySeq
  <2>. QED  BY <2>1, <2>2
<1>6. AcceptedIsUsable'
  <2>1. SUFFICES ASSUME pc' = "unresolved", steady, faults' = 0
                 PROVE  \E m \in Meant(type) :
                          V \in streams[m].spec /\ streams[m].status[V] # "imported"
    BY <1>2 DEF AcceptedIsUsable, SearchFrame
  <2>. DEFINE m == found[1].ns
  <2>. DEFINE Found == [ns : Namespaces, import : Imports \ {"absent"}]
  <2>2. found[1] \in Found
    <3>1. found \in Seq(Found)  BY <1>1 DEF TypeOK
    <3>. HIDE DEF Found
    <3>. QED  BY <1>5, <3>1
  <2>3. m \in Meant(type) /\ m \in Namespaces /\ found[1].import = streams[m].status[V]
    BY <1>1, <1>5, <2>1, <2>2 DEF FoundInv
  <2>4. found[1].import = "failed"  BY <1>4, <2>1, <2>2 DEF Imports
  <2>5. V \in streams[m].spec  BY <1>1, <1>3, <2>3, <2>4 DEF StreamInv
  <2>. QED  BY <2>3, <2>4, <2>5
<1>. QED  BY <1>1, <1>2, <1>4, <1>6, SameFoundIInv

LEMMA StutterIInv == IInv /\ UNCHANGED vars => IInv'
<1>. SUFFICES ASSUME IInv, UNCHANGED vars PROVE IInv'  OBVIOUS
<1>. USE DEF vars, IInv
<1>1. TypeOK' /\ TypeInv' /\ StreamInv'  BY DEF TypeOK, TypeInv, StreamInv
<1>2. ReadInv'  BY DEF ReadInv, AnswerTo
<1>3. SearchInv' /\ FoundInv'  BY DEF SearchInv, FoundInv
<1>4. AcceptedIsUsable' /\ OneFailureTolerated' /\ OfferedIsNotHidden'
  BY DEF AcceptedIsUsable, OneFailureTolerated, OfferedIsNotHidden
<1>. QED  BY <1>1, <1>2, <1>3, <1>4

LEMMA NextIInv == IInv /\ [Next]_vars => IInv'
BY StartIInv, ReadListIInv, OfferImagesIInv, CheckTypeIInv, CheckVersionIInv,
   GetStreamIInv, GetFallbackIInv, GetImageIInv, ClusterIInv, StutterIInv
   DEF Next, Command

-----------------------------------------------------------------------------
(* The theorems *)

\* The inductive invariant holds in every state.
THEOREM Inductive == Spec => []IInv
<1>1. Init => IInv  BY InitIInv
<1>2. IInv /\ [Next]_vars => IInv'  BY NextIInv
<1>. QED  BY <1>1, <1>2, PTL DEF Spec

\* The variables keep their shape: a command that asks for its image is a push
\* of a saved type with at most one tag, and it asks at most twice.
THEOREM TypeCorrect == Spec => []TypeOK
<1>1. IInv => TypeOK  BY DEF IInv
<1>. QED  BY <1>1, Inductive, PTL

\* What the check of the type accepts resolves to an image, when nothing fails
\* or changes, but for a tag of the spec that is not imported and for a second
\* tag (VersionExist and GetImageStream).
THEOREM AcceptedResolves == Spec => []AcceptedIsUsable
<1>1. IInv => AcceptedIsUsable  BY DEF IInv
<1>. QED  BY <1>1, Inductive, PTL

\* A failed request leaves what the other namespace has (getDefaultBuilderImages).
THEOREM OneFailureIsTolerated == Spec => []OneFailureTolerated
<1>1. IInv => OneFailureTolerated  BY DEF IInv
<1>. QED  BY <1>1, Inductive, PTL

\* What the catalog offers is hidden only if the other namespace has the same tag.
THEOREM HiddenStaysHidden == Spec => []OfferedIsNotHidden
<1>1. IInv => OfferedIsNotHidden  BY DEF IInv
<1>. QED  BY <1>1, Inductive, PTL

\* The images of the container and of the build are the one that was asked for.
THEOREM ImageIsTheOneAsked == Spec => []ImageAsAsked
<1>1. IInv => ImageAsAsked
  <2>1. SUFFICES ASSUME IInv, command = "push", pc = "ended" PROVE ImageAsAsked
    BY DEF ImageAsAsked
  <2>. DEFINE Found == [ns : Namespaces, import : Imports \ {"absent"}]
  <2>2. TypeOK /\ SearchInv /\ FoundInv  BY <2>1 DEF IInv
  <2>3. found \in Seq(Found) /\ found # <<>>  BY <2>1, <2>2 DEF TypeOK, SearchInv
  <2>4. Len(found) \in Nat \ {0} /\ DOMAIN found = 1..Len(found) /\ 1 \in 1..Len(found)
    <3>. HIDE DEF Found
    <3>1. Len(found) # 0  BY <2>3, EmptySeq
    <3>2. Len(found) \in Nat /\ DOMAIN found = 1..Len(found)  BY <2>3
    <3>. QED  BY <3>1, <3>2
  <2>5. \A i \in 1..Len(found) : found[i] \in Found
    <3>. HIDE DEF Found
    <3>. QED  BY <2>3
  <2>6. found[1].import = "imported"  BY <2>1, <2>2, <2>3 DEF SearchInv
  <2>7. \A i \in 1..Len(found) : found[i].ns \in Meant(type)  BY <2>2 DEF FoundInv
  <2>8. ASSUME steady, faults = 0, NEW i \in 1..Len(found)
        PROVE  /\ found[i] = found[1]
               /\ type.ns = None /\ found[i].ns = "openshift" =>
                    ~InStatus(streams["current"], VersionOf(type))
    <3>1. \A j \in 1..Len(found) :
            /\ found[j].import = streams[found[j].ns].status[VersionOf(type)]
            /\ type.ns = None /\ found[j].ns = "openshift" =>
                 ~InStatus(streams["current"], VersionOf(type))
            /\ found[j].ns = "current" => InStatus(streams["current"], VersionOf(type))
      BY <2>2, <2>5, <2>8 DEF FoundInv, InStatus
    <3>2. found[i].ns = found[1].ns
      BY <2>4, <2>7, <3>1 DEF Meant, Namespaces
    <3>3. found[i].import = found[1].import  BY <2>4, <3>1, <3>2
    <3>4. found[i] = found[1]  BY <2>4, <2>5, <3>2, <3>3
    <3>. QED  BY <3>1, <3>4
  <2>. QED  BY <2>4, <2>6, <2>7, <2>8 DEF ImageAsAsked
<1>. QED  BY <1>1, Inductive, PTL

=============================================================================
