---------------------------- MODULE Save_proofs -----------------------------
(***************************************************************************)
(* Theorems about saved games, for sequence numbers of any range and any   *)
(* number of saves, where a file that is open can be read.                 *)
(***************************************************************************)
EXTENDS Save, TLAPS

\* The two files.
LEMMA TwoCopies ==
    /\ Copies = {0, 1}
    /\ \A w \in Copies : Other(w) \in Copies /\ Other(w) # w /\ Other(Other(w)) = w
    /\ \A v, w \in Copies : v = w \/ v = Other(w)
  BY DEF Copies, Other

\* What a file of each kind holds.
LEMMA FileFields ==
    ASSUME NEW file \in Files
    PROVE  /\ file.kind \in {"missing", "headless", "torn", "good"}
           /\ file.kind \in {"torn", "good"} => file.seq \in 0 .. SeqMod - 1
           /\ file.kind = "good" => file.data \in 1 .. MaxWrites /\ file.size \in Sizes
  BY DEF Files, File, Missing, Headless, Torn, Good

\* What the latest of two files is: a good copy no other good copy is later than.
LEMMA LatestIs ==
    ASSUME NEW files \in [Copies -> Files]
    PROVE  /\ Latest(files) \in 0 .. MaxWrites
           /\ \A w \in Copies : files[w].kind = "good" => files[w].data <= Latest(files)
           /\ Latest(files) # 0 => \E w \in Copies : files[w].kind = "good" /\ files[w].data = Latest(files)
<1> DEFINE there == GoodData(files)
<1>1. \A w \in Copies : files[w].kind = "good" => files[w].data \in 1 .. MaxWrites
  BY FileFields
<1>2. there = {files[w].data : w \in {v \in Copies : files[v].kind = "good"}}
  BY DEF GoodData
<1>3. \A d \in there : d \in 1 .. MaxWrites
  BY <1>1, <1>2
<1>4. CASE there = {}
  BY <1>2, <1>4, SaveAssumption, SMTT(30) DEF Latest
<1>5. CASE there # {}
  <2>1. \E d \in there : \A e \in there : e <= d
    <3>1. CASE files[0].kind = "good" /\ files[1].kind = "good" /\ files[0].data <= files[1].data
      <4>1. files[1].data \in there /\ \A e \in there : e = files[0].data \/ e = files[1].data
        BY <1>2, <3>1, TwoCopies
      <4> QED
        BY <1>3, <3>1, <4>1
    <3>2. CASE files[0].kind = "good" /\ files[1].kind = "good" /\ ~(files[0].data <= files[1].data)
      <4>1. files[0].data \in there /\ \A e \in there : e = files[0].data \/ e = files[1].data
        BY <1>2, <3>2, TwoCopies
      <4>2. files[0].data \in 1 .. MaxWrites /\ files[1].data \in 1 .. MaxWrites
        BY <1>1, <3>2, TwoCopies
      <4> QED
        BY <1>3, <3>2, <4>1, <4>2, SaveAssumption
    <3>3. CASE ~(files[0].kind = "good" /\ files[1].kind = "good")
      <4>1. PICK d : d \in there
        BY <1>5
      <4>2. \A e \in there : e = d
        BY <1>2, <3>3, <4>1, TwoCopies
      <4> QED
        BY <1>3, <4>1, <4>2
    <3> QED
      BY <3>1, <3>2, <3>3
  <2>2. Latest(files) = CHOOSE d \in there : \A e \in there : e <= d
    BY <1>5 DEF Latest
  <2>3. Latest(files) \in there /\ \A e \in there : e <= Latest(files)
    BY <2>1, <2>2
  <2> QED
    BY <1>2, <1>3, <2>3
<1> QED
  BY <1>4, <1>5

\* A number and the one after it: the second is the newer, also at the wrap.
LEMMA AfterIsNewer ==
    ASSUME NEW s \in 0 .. SeqMod - 1
    PROVE  After(s) \in 0 .. SeqMod - 1 /\ Newer(After(s), s) /\ ~Newer(s, After(s))
  BY SaveAssumption DEF After, Newer, Distance, SeqMod

\* What newest() takes is a good copy it opened.
LEMMA NewestIsGood ==
    ASSUME TypeOK, NEW look \in Looks, Finds(look)
    PROVE  /\ Newest(look) \in Copies \cup {None}
           /\ Newest(look) # None => IsGood(Newest(look)) /\ look.open[Newest(look)] = "open"
<1>1. First(look) \in Copies /\ Other(First(look)) \in Copies
  BY TwoCopies DEF First
<1>2. None \notin Copies
  BY DEF None, Copies
<1> QED
  BY <1>1, <1>2 DEF Newest, Finds, IsGood

\* When every copy can be opened and read it is the latest one.
LEMMA NewestIsLatest ==
    ASSUME TypeOK, Ordered, ~ReadFaults, NEW look \in Looks, Finds(look), ~Failed(look)
    PROVE  IF Newest(look) = None THEN Value = 0 ELSE copy[Newest(look)].data = Value
<1> DEFINE usable == {w \in Copies : look.open[w] = "open" /\ look.body[w]}
<1>1. \A w \in Copies : look.open[w] = "open" <=> copy[w].kind \in {"torn", "good"}
  BY DEF Looks, Finds, Failed
<1>2. \A w \in Copies : look.body[w] <=> IsGood(w)
  BY DEF Looks, Finds, IsGood
<1>3. usable = {w \in Copies : IsGood(w)}
  BY <1>1, <1>2 DEF IsGood
<1>4. /\ \A w \in Copies : IsGood(w) => copy[w].data <= Value
      /\ Value # 0 => \E w \in Copies : IsGood(w) /\ copy[w].data = Value
      /\ Value \in 0 .. MaxWrites
  BY LatestIs DEF TypeOK, Value, IsGood
<1>5. First(look) \in Copies /\ Other(First(look)) \in Copies /\ None \notin Copies
  BY TwoCopies DEF First, None
<1>6. Newest(look) = IF First(look) \in usable THEN First(look)
                     ELSE IF Other(First(look)) \in usable THEN Other(First(look)) ELSE None
  BY DEF Newest
<1>7. \A w \in Copies : w = First(look) \/ w = Other(First(look))
  BY <1>5, TwoCopies
<1>8. CASE IsGood(0) /\ IsGood(1)
  <2>1. PICK w \in Copies : copy[w].seq = After(copy[Other(w)].seq) /\ copy[w].data > copy[Other(w)].data
    BY <1>8 DEF Ordered
  <2>2. \A v \in Copies : copy[v].seq \in 0 .. SeqMod - 1 /\ copy[v].data \in 1 .. MaxWrites
    BY <1>8, FileFields, TwoCopies DEF TypeOK, IsGood
  <2>3. Newer(copy[w].seq, copy[Other(w)].seq) /\ ~Newer(copy[Other(w)].seq, copy[w].seq)
    BY <2>1, <2>2, TwoCopies, AfterIsNewer
  <2>4. look.open[0] = "open" /\ look.open[1] = "open"
    BY <1>1, <1>8, TwoCopies DEF IsGood
  <2>5. First(look) = w
    <3>1. CASE w = 0
      <4>1. ~Newer(copy[1].seq, copy[0].seq)
        BY <2>3, <3>1 DEF Other
      <4> QED
        BY <2>4, <3>1, <4>1 DEF First
    <3>2. CASE w = 1
      <4>1. Newer(copy[1].seq, copy[0].seq)
        BY <2>3, <3>2 DEF Other
      <4> QED
        BY <2>4, <3>2, <4>1 DEF First
    <3> QED
      BY <3>1, <3>2, TwoCopies
  <2>6. Newest(look) = w /\ w # None
    BY <1>3, <1>5, <1>6, <1>8, <2>5, TwoCopies
  <2>7. copy[w].data <= Value /\ copy[Other(w)].data <= Value
    BY <1>4, <1>8, TwoCopies
  <2>8. Value = copy[w].data \/ Value = copy[Other(w)].data
    BY <1>4, <2>2, <2>7, TwoCopies, SaveAssumption
  <2> QED
    BY <1>4, <2>1, <2>2, <2>6, <2>7, <2>8, TwoCopies, SaveAssumption
<1>9. CASE ~(IsGood(0) /\ IsGood(1))
  <2>1. CASE Newest(look) = None
    <3>1. \A w \in Copies : ~IsGood(w)
      BY <1>3, <1>5, <1>6, <1>7, <2>1
    <3> QED
      BY <1>4, <2>1, <3>1
  <2>2. CASE Newest(look) # None
    <3>1. Newest(look) \in Copies /\ IsGood(Newest(look))
      BY <1>3, <1>6, <2>2
    <3>2. \A w \in Copies : IsGood(w) => w = Newest(look)
      BY <1>9, <3>1, TwoCopies
    <3>3. copy[Newest(look)].data \in 1 .. MaxWrites /\ copy[Newest(look)].data <= Value
      BY <1>4, <3>1, FileFields DEF TypeOK, IsGood
    <3> QED
      BY <1>4, <2>2, <3>1, <3>2, <3>3, SaveAssumption
  <2> QED
    BY <2>1, <2>2
<1> QED
  BY <1>8, <1>9

-----------------------------------------------------------------------------
(* The inductive invariant *)

\* No file is there at the start.
LEMMA InitHolds == Init => IInv
<1> SUFFICES ASSUME Init PROVE IInv
  OBVIOUS
<1>1. TypeOK
  BY SaveAssumption DEF Init, TypeOK, Files, Missing, NoJob, Job, File, Silent, Reply, Replies, Copies, SeqMod
<1>2. \A w \in Copies : ~IsGood(w)
  BY DEF Init, Missing, File, IsGood
<1>3. Value = 0
  BY <1>1, <1>2, LatestIs DEF TypeOK, Value, IsGood
<1> QED
  BY <1>1, <1>2, <1>3, TwoCopies DEF Init, IInv, SaveSurvives, Ordered, Ahead

\* What the invariant says of the latest save.
LEMMA ValueIs ==
    ASSUME TypeOK
    PROVE  /\ Value \in 0 .. MaxWrites
           /\ \A w \in Copies : IsGood(w) => copy[w].data <= Value
           /\ Value # 0 => \E w \in Copies : IsGood(w) /\ copy[w].data = Value
  BY LatestIs DEF TypeOK, Value, IsGood

\* The same of the next state.
LEMMA ValueIsNext ==
    ASSUME TypeOK'
    PROVE  /\ Value' \in 0 .. MaxWrites
           /\ \A w \in Copies : copy'[w].kind = "good" => copy'[w].data <= Value'
           /\ Value' # 0 => \E w \in Copies : copy'[w].kind = "good" /\ copy'[w].data = Value'
<1>1. copy' \in [Copies -> Files]
  BY DEF TypeOK
<1>2. Value' = Latest(copy')
  BY DEF Value, Latest, GoodData
<1> QED
  BY <1>1, <1>2, LatestIs

\* A write leaves the other file alone; the save is what it was until the file is written whole.
LEMMA WriteEffect ==
    ASSUME IInv, TypeOK', pc \in {"open", "write"},
           NEW file, file \in Partly(copy[job.file]) \cup {Written},
           copy' = [copy EXCEPT ![job.file] = file]
    PROVE  /\ copy'[Other(job.file)] = copy[Other(job.file)]
           /\ Ordered'
           /\ \/ file = Written /\ Value' = job.data
              \/ file # Written /\ Value' = Value
<1> DEFINE w == Other(job.file)
<1>1. w \in Copies /\ job.file \in Copies /\ w # job.file /\ \A v \in Copies : v = w \/ v = job.file
  BY TwoCopies DEF IInv, TypeOK
<1>2. copy'[w] = copy[w] /\ copy'[job.file] = file
  BY <1>1 DEF IInv, TypeOK
<1>3. /\ job.data = writes /\ job.data > 0 /\ job.data \in Nat
      /\ Value < job.data /\ Value \in Nat
      /\ IF IsGood(w) THEN copy[w].data = Value /\ job.seq = After(copy[w].seq) ELSE Value = 0
  BY ValueIs, SaveAssumption DEF IInv, Ahead, TypeOK
<1>4. file.kind = "good" => file = copy[job.file] \/ file = Written
  BY DEF Partly, Headless, Torn, File
<1>5. Written.kind = "good" /\ Written.data = job.data /\ Written.seq = job.seq
  BY DEF Written, Good, File
<1>6. file = copy[job.file] => file # Written /\ (file.kind = "good" => file.data <= Value)
  BY <1>1, <1>3, <1>5, ValueIs DEF IInv, IsGood
<1>7. CASE file = Written
  <2>1. Value' = job.data
    <3>1. \A v \in Copies : copy'[v].kind = "good" => copy'[v].data <= job.data
      BY <1>1, <1>2, <1>3, <1>5, <1>7 DEF IsGood
    <3>2. Value' >= job.data
      BY <1>1, <1>2, <1>5, <1>7, ValueIsNext
    <3> QED
      BY <1>3, <3>1, <3>2, ValueIsNext, SaveAssumption
  <2>2. Ordered'
    <3> SUFFICES ASSUME copy'[0].kind = "good", copy'[1].kind = "good"
                 PROVE  \E v \in Copies : /\ copy'[v].seq = After(copy'[Other(v)].seq)
                                          /\ copy'[v].data > copy'[Other(v)].data
      BY DEF Ordered, IsGood, Other, After
    <3>1. IsGood(w)
      BY <1>1, <1>2, TwoCopies DEF IsGood
    <3>2. copy'[job.file].seq = After(copy'[w].seq) /\ copy'[job.file].data > copy'[w].data
      BY <1>2, <1>3, <1>5, <1>7, <3>1
    <3>3. PICK v \in Copies : v = job.file
      BY <1>1
    <3>4. copy'[v].seq = After(copy'[Other(v)].seq) /\ copy'[v].data > copy'[Other(v)].data
      BY <3>2, <3>3
    <3> QED
      BY <3>4
  <2> QED
    BY <1>2, <1>7, <2>1, <2>2
<1>8. CASE file # Written
  <2>1. \A v \in Copies : copy'[v].kind = "good" => IsGood(v) /\ copy'[v] = copy[v]
    BY <1>1, <1>2, <1>4, <1>8 DEF IsGood
  <2>2. Value' <= Value
    BY <2>1, ValueIs, ValueIsNext, SaveAssumption DEF IInv
  <2>3. Value <= Value'
    <3>1. Value # 0 => IsGood(w) /\ copy[w].data = Value
      BY <1>3
    <3> QED
      BY <1>1, <1>2, <3>1, ValueIs, ValueIsNext, SaveAssumption DEF IInv, IsGood
  <2>4. Value' = Value
    BY <2>2, <2>3, ValueIs, ValueIsNext, SaveAssumption DEF IInv
  <2>5. Ordered'
    BY <2>1, TwoCopies DEF IInv, Ordered, IsGood, Other, After
  <2> QED
    BY <1>2, <1>8, <2>4, <2>5
<1> QED
  BY <1>7, <1>8

\* A call that only looks.
Looking == UNCHANGED <<copy, pc, job, erased, writes, acked>>

\* Such a call keeps the invariant.
LEMMA LookingKeeps ==
    ASSUME IInv, Looking, TypeOK'
    PROVE  IInv'
<1> USE DEF IInv, Looking
<1>1. Value' = Value
  BY DEF Value, Latest, GoodData
<1>2. SaveSurvives' /\ Ordered'
  BY <1>1 DEF SaveSurvives, Ordered, IsGood, Other, After
<1>3. Ahead'
  BY <1>1 DEF Ahead, IsGood, Other, After
<1> QED
  BY <1>2, <1>3

\* An answer with parts of the right kinds is one the calls give.
LEMMA ReplyType ==
    ASSUME NEW call \in {"none", "read", "size", "load", "write", "erase"},
           NEW code \in {"none", "ok", "error", "ENOENT", "ENOSPC", "EIO"},
           NEW data \in 0 .. MaxWrites, NEW sure \in BOOLEAN
    PROVE  Reply(call, code, data, sure) \in Replies
  BY DEF Reply, Replies

\* So is no answer.
LEMMA SilentType == Silent \in Replies
  BY SaveAssumption DEF Silent, Reply, Replies

\* Every step keeps the types.
LEMMA TypeStep == IInv /\ [Next]_vars => TypeOK'
<1> SUFFICES ASSUME IInv, [Next]_vars PROVE TypeOK'
  OBVIOUS
<1> USE DEF IInv
<1> DEFINE Goal == TypeOK'
<1> SUFFICES Goal
  OBVIOUS
<1>1. \A w \in Copies : copy[w].kind = "good" => copy[w].data \in 1 .. MaxWrites /\ copy[w].size \in Sizes
  BY FileFields DEF TypeOK
<1>2. ASSUME NEW call \in {"read", "load"}, NEW look \in Looks, NEW cap \in Nat, Finds(look),
             ret' = ReadInto(call, look, cap), UNCHANGED <<copy, pc, job, erased, writes, acked>>
      PROVE  Goal
  BY <1>1, <1>2, NewestIsGood, SaveAssumption DEF ReadInto, NoCopy, Reply, Replies, TypeOK, IsGood
<1>3. ASSUME NEW cap \in Sizes, Read(cap) PROVE Goal
  BY <1>2, <1>3, SaveAssumption DEF Read
<1>4. CASE Size
  BY <1>1, <1>4, NewestIsGood, SaveAssumption DEF Size, NoCopy, Reply, Replies, TypeOK, IsGood
<1>5. CASE Load
  <2>1. PICK look \in Looks, again \in Looks :
          /\ Finds(look) /\ Finds(again)
          /\ \/ ret' = NoCopy("load", look)
             \/ ret' = Reply("load", "error", 0, TRUE)
             \/ Newest(look) # None /\ ret' = ReadInto("load", again, copy[Newest(look)].size)
    BY <1>5 DEF Load
  <2>2. Newest(look) # None => copy[Newest(look)].size \in Nat
    BY <1>1, <2>1, NewestIsGood, SaveAssumption DEF IsGood
  <2>3. CASE ret' = NoCopy("load", look) \/ ret' = Reply("load", "error", 0, TRUE)
    <3>1. Failed(look) \in BOOLEAN
      BY DEF Failed
    <3>2. PICK code \in {"ENOENT", "error"}, sure \in BOOLEAN : ret' = Reply("load", code, 0, sure)
      BY <2>3, <3>1 DEF NoCopy
    <3> QED
      BY <1>5, <3>2, ReplyType, SaveAssumption DEF Load, TypeOK
  <2> QED
    BY <1>2, <1>5, <2>1, <2>2, <2>3 DEF Load
<1>6. ASSUME NEW size \in Sizes, WriteLook(size) PROVE Goal
  <2>1. PICK look \in Looks :
          /\ Finds(look)
          /\ \/ ret' = Reply("write", "error", 0, TRUE) /\ UNCHANGED <<pc, job, writes>>
             \/ /\ job' = Job(Target(Newest(look)),
                              IF Newest(look) = None THEN 1 ELSE After(copy[Newest(look)].seq), writes + 1, size)
                /\ writes' = writes + 1 /\ pc' = "open" /\ ret' = Silent
    BY <1>6 DEF WriteLook
  <2>2. writes + 1 \in 0 .. MaxWrites /\ UNCHANGED <<copy, erased, acked>>
    BY <1>6, SaveAssumption DEF WriteLook, TypeOK
  <2>3. \A w : Target(w) \in Copies
    BY DEF Target, Copies
  <2>4. PICK s : s = IF Newest(look) = None THEN 1 ELSE After(copy[Newest(look)].seq)
    OBVIOUS
  <2>5. s \in 0 .. SeqMod - 1
    <3>1. CASE Newest(look) = None
      BY <2>4, <3>1, SaveAssumption DEF SeqMod
    <3>2. CASE Newest(look) # None
      <4>1. copy[Newest(look)].seq \in 0 .. SeqMod - 1
        BY <2>1, <3>2, NewestIsGood, FileFields DEF TypeOK, IsGood
      <4> QED
        BY <2>4, <3>2, <4>1, AfterIsNewer
    <3> QED
      BY <3>1, <3>2
  <2>6. CASE ret' = Reply("write", "error", 0, TRUE) /\ UNCHANGED <<pc, job, writes>>
    BY <2>2, <2>6, SaveAssumption DEF Reply, Replies, TypeOK
  <2>7. CASE job' = Job(Target(Newest(look)), s, writes + 1, size)
             /\ writes' = writes + 1 /\ pc' = "open" /\ ret' = Silent
    <3>1. job' \in [file : Copies, seq : 0 .. SeqMod - 1, data : 0 .. MaxWrites, size : Sizes \cup {0}]
      BY <2>2, <2>3, <2>5, <2>7 DEF Job
    <3> QED
      BY <2>2, <2>7, <3>1, SaveAssumption DEF Silent, Reply, Replies, TypeOK
  <2> QED
    BY <2>1, <2>4, <2>6, <2>7
<1>7. Headless \in Files /\ Missing \in Files /\ Torn(job.seq) \in Files
  BY DEF Files, TypeOK
<1>8. pc \in {"open", "write"} => Written \in Files
  BY SaveAssumption DEF Files, TypeOK, Ahead, Written
<1>9. pc = "write" => \A file \in Partly(copy[job.file]) \cup {Written} : file \in Files
  BY <1>7, <1>8 DEF Partly, TypeOK
<1>10. CASE WriteOpen
  BY <1>7, <1>10, SaveAssumption DEF WriteOpen, Silent, Reply, Replies, TypeOK
<1>11. CASE WriteClose
  <2>1. PICK file \in Files, code \in {"ok", "EIO"} :
          /\ copy' = [copy EXCEPT ![job.file] = file]
          /\ acked' \in {acked, job.data}
          /\ ret' = Reply("write", code, job.data, TRUE)
    BY <1>8, <1>9, <1>11 DEF WriteClose
  <2>2. job.data \in 0 .. MaxWrites
    BY DEF TypeOK
  <2>3. ret' \in Replies
    BY <2>1, <2>2, ReplyType
  <2> QED
    BY <1>11, <2>1, <2>2, <2>3 DEF WriteClose, TypeOK
<1>12. CASE EraseFirst
  <2>1. copy' \in [Copies -> Files]
    BY <1>7, <1>12 DEF EraseFirst, Remove, TypeOK
  <2>2. erased' \in BOOLEAN
    BY <1>12 DEF EraseFirst, Remove
  <2> QED
    BY <1>12, <2>1, <2>2, SilentType, SaveAssumption DEF EraseFirst, TypeOK
<1>13. CASE EraseSecond
  <2>1. copy' \in [Copies -> Files]
    BY <1>7, <1>13 DEF EraseSecond, Remove, TypeOK
  <2>2. erased' \in BOOLEAN
    BY <1>13 DEF EraseSecond, Remove, TypeOK
  <2>3. PICK code \in {"ok", "error"} : ret' = Reply("erase", code, 0, TRUE)
    BY <1>13 DEF EraseSecond
  <2>4. ret' \in Replies
    BY <2>3, SaveAssumption DEF Reply, Replies
  <2> QED
    BY <1>13, <2>1, <2>2, <2>4 DEF EraseSecond, TypeOK
<1>14. CASE Crash
  BY <1>9, <1>14, SaveAssumption DEF Crash, Silent, Reply, Replies, TypeOK
<1>15. CASE UNCHANGED vars
  BY <1>15 DEF vars, TypeOK
<1> QED
  BY <1>3, <1>4, <1>5, <1>6, <1>10, <1>11, <1>12, <1>13, <1>14, <1>15 DEF Next

\* A save_erase never makes a later save appear, and what it leaves is in order.
LEMMA EraseEffect ==
    ASSUME IInv, TypeOK', NEW w \in Copies, NEW done, Remove(w, done)
    PROVE  Value' <= Value /\ Ordered' /\ \A v \in Copies : copy'[v].kind = "good" => copy'[v] = copy[v]
<1>1. \A v \in Copies : copy'[v].kind = "good" => IsGood(v) /\ copy'[v] = copy[v]
  BY DEF Remove, Missing, File, IInv, TypeOK, IsGood
<1>2. Value' <= Value
  BY <1>1, ValueIs, ValueIsNext, SaveAssumption DEF IInv
<1>3. Ordered'
  BY <1>1, TwoCopies DEF IInv, Ordered, IsGood, Other, After
<1> QED
  BY <1>1, <1>2, <1>3

\* A save that begins goes over the copy that is not the latest, with a number after every other.
LEMMA WriteLookHolds ==
    ASSUME ~ReadFaults, IInv, TypeOK', NEW size \in Sizes, WriteLook(size)
    PROVE  IInv'
<1> USE DEF IInv
<1>1. Value' = Value /\ UNCHANGED copy
  BY DEF WriteLook, Value, Latest, GoodData
<1>2. PICK look \in Looks :
        /\ Finds(look)
        /\ IF Failed(look)
           THEN UNCHANGED <<pc, job, writes>>
           ELSE /\ job' = Job(Target(Newest(look)),
                              IF Newest(look) = None THEN 1 ELSE After(copy[Newest(look)].seq), writes + 1, size)
                /\ writes' = writes + 1 /\ pc' = "open"
  BY DEF WriteLook
<1>3. SaveSurvives' /\ Ordered'
  BY <1>1 DEF WriteLook, SaveSurvives, Ordered, IsGood, Other, After
<1>4. \A w \in Copies : IsGood(w) => copy[w].data \in 1 .. MaxWrites /\ copy[w].data <= writes
  BY FileFields DEF Ahead, TypeOK, IsGood
<1>5. pc = "idle" /\ writes \in Nat /\ Value \in Nat /\ Value <= writes
  BY <1>4, ValueIs, SaveAssumption DEF WriteLook, TypeOK
<1>6. CASE Failed(look)
  BY <1>1, <1>2, <1>3, <1>4, <1>5, <1>6 DEF Ahead, IsGood, WriteLook
<1>7. CASE ~Failed(look)
  <2> DEFINE n == Newest(look)
  <2>1. IF n = None THEN Value = 0 ELSE copy[n].data = Value
    BY <1>2, <1>7, NewestIsLatest
  <2>2. n \in Copies \cup {None} /\ (n # None => IsGood(n))
    BY <1>2, NewestIsGood
  <2>3. /\ job'.file = Target(n) /\ job'.data = writes + 1 /\ job'.size = size
        /\ job'.seq = IF n = None THEN 1 ELSE After(copy[n].seq)
        /\ writes' = writes + 1
    BY <1>2, <1>7 DEF Job
  <2>4. CASE n = None
    <3>1. Value = 0 /\ \A w \in Copies : ~IsGood(w)
      BY <1>4, <2>1, <2>4, ValueIs
    <3>2. Other(Target(n)) \in Copies
      BY DEF Target, Copies, Other
    <3> QED
      BY <1>1, <1>2, <1>3, <1>4, <1>5, <1>7, <2>3, <3>1, <3>2, SaveAssumption
      DEF Ahead, IsGood, SaveSurvives, WriteLook, TypeOK
  <2>5. CASE n # None
    <3>1. Other(Target(n)) = n
      BY <2>2, <2>5 DEF Target, Copies, Other
    <3> QED
      BY <1>1, <1>2, <1>3, <1>4, <1>5, <1>7, <2>1, <2>2, <2>3, <2>5, <3>1, SaveAssumption
      DEF Ahead, IsGood, SaveSurvives, WriteLook, TypeOK
  <2> QED
    BY <2>4, <2>5
<1> QED
  BY <1>3, <1>6, <1>7

\* Every step keeps the invariant.
LEMMA StepHolds == ~ReadFaults /\ IInv /\ [Next]_vars => IInv'
<1> SUFFICES ASSUME ~ReadFaults, IInv, [Next]_vars PROVE IInv'
  OBVIOUS
<1>1. TypeOK'
  BY TypeStep
<1> DEFINE Goal == IInv'
<1> SUFFICES Goal
  OBVIOUS
<1>2. ASSUME Looking PROVE Goal
  BY <1>1, <1>2, LookingKeeps
<1>3. ASSUME NEW cap \in Sizes, Read(cap) PROVE Goal
  BY <1>2, <1>3 DEF Read, Looking
<1>4. CASE Size \/ Load
  BY <1>2, <1>4 DEF Size, Load, Looking
<1>5. ASSUME NEW size \in Sizes, WriteLook(size) PROVE Goal
  BY <1>1, <1>5, WriteLookHolds
<1>6. /\ Value \in Nat /\ writes \in Nat /\ acked \in Nat /\ Value >= acked
      /\ \A w \in Copies : IsGood(w) => copy[w].data <= writes
      /\ \A w \in Copies : IsGood(w) => copy[w].data \in Nat
  BY ValueIs, FileFields, SaveAssumption DEF IInv, TypeOK, SaveSurvives, Ahead, IsGood
<1>7. ASSUME pc \in {"open", "write"}, NEW file, file \in Partly(copy[job.file]) \cup {Written},
             copy' = [copy EXCEPT ![job.file] = file], UNCHANGED <<job, writes>>,
             acked' = acked \/ (file = Written /\ acked' = job.data),
             pc' = "idle" \/ (pc' = "write" /\ file # Written)
      PROVE  Goal
  <2>1. /\ copy'[Other(job.file)] = copy[Other(job.file)]
        /\ Ordered'
        /\ \/ file = Written /\ Value' = job.data
           \/ file # Written /\ Value' = Value
    BY <1>1, <1>7, WriteEffect
  <2>2. /\ job.data = writes /\ job.size \in Sizes /\ job.data > 0 /\ Value < job.data /\ acked < job.data
        /\ LET w == Other(job.file) IN
           IF IsGood(w) THEN copy[w].data = Value /\ job.seq = After(copy[w].seq) ELSE Value = 0
    BY <1>7 DEF IInv, Ahead
  <2>3. SaveSurvives'
    BY <1>6, <1>7, <2>1, <2>2 DEF SaveSurvives
  <2>4. \A w \in Copies : copy'[w].kind = "good" => copy'[w].data <= writes
    <3>1. \A w \in Copies : copy'[w].kind = "good" => copy'[w].data \in Nat /\ copy'[w].data <= Value'
      BY <1>1, ValueIsNext, FileFields, SaveAssumption DEF TypeOK
    <3> QED
      BY <1>6, <2>1, <2>2, <3>1
  <2>5. Ahead'
    BY <1>6, <1>7, <2>1, <2>2, <2>4 DEF Ahead, IsGood, Other, After
  <2> QED
    BY <1>1, <2>1, <2>3, <2>5 DEF IInv
<1>8. CASE WriteOpen
  <2>1. PICK file \in {copy[job.file], Headless} : copy' = [copy EXCEPT ![job.file] = file]
    BY <1>8 DEF WriteOpen
  <2>2. file # Written
    <3>1. Written.kind = "good" /\ Written.data = job.data /\ Headless.kind = "headless"
      BY DEF Written, Headless, Good, File
    <3>2. job.file \in Copies /\ job.data > Value
      BY <1>8 DEF WriteOpen, IInv, Ahead, TypeOK
    <3>3. IsGood(job.file) => copy[job.file].data <= Value /\ copy[job.file].data \in Nat
      BY <1>6, <3>2, ValueIs DEF IInv
    <3> QED
      BY <1>6, <2>1, <3>1, <3>2, <3>3 DEF IsGood
  <2> QED
    BY <1>7, <1>8, <2>1, <2>2 DEF WriteOpen, Partly
<1>9. CASE WriteClose
  BY <1>7, <1>9 DEF WriteClose
<1>10. CASE Crash
  <2>1. CASE pc = "write"
    BY <1>7, <1>10, <2>1 DEF Crash
  <2>2. CASE pc # "write"
    <3>1. UNCHANGED <<copy, job, writes, acked>> /\ pc' = "idle" /\ Value' = Value
      BY <1>10, <2>2 DEF Crash, Value, Latest, GoodData
    <3> QED
      BY <1>1, <3>1 DEF IInv, SaveSurvives, Ordered, Ahead, IsGood, Other, After
  <2> QED
    BY <2>1, <2>2
<1>11. ASSUME NEW w \in Copies, NEW done, Remove(w, done), UNCHANGED writes,
              acked' = 0, pc' = "idle" \/ (pc' = "erase" /\ (erased' => copy'[0] = Missing))
       PROVE  Goal
  <2>1. Ordered' /\ \A v \in Copies : copy'[v].kind = "good" => copy'[v] = copy[v]
    BY <1>1, <1>11, EraseEffect
  <2>2. SaveSurvives'
    BY <1>1, <1>11, ValueIsNext, SaveAssumption DEF SaveSurvives
  <2>3. Ahead'
    BY <1>6, <1>11, <2>1 DEF Ahead, IsGood
  <2> QED
    BY <1>1, <2>1, <2>2, <2>3 DEF IInv
<1>12. CASE EraseFirst
  <2>1. erased' => copy'[0] = Missing
    BY <1>12, TwoCopies DEF EraseFirst, Remove, IInv, TypeOK
  <2> QED
    BY <1>11, <1>12, <2>1, TwoCopies DEF EraseFirst
<1>13. CASE EraseSecond
  BY <1>11, <1>13, TwoCopies DEF EraseSecond, IInv, Ahead
<1>14. CASE UNCHANGED vars
  BY <1>2, <1>14 DEF vars, Looking
<1> QED
  BY <1>3, <1>4, <1>5, <1>8, <1>9, <1>10, <1>12, <1>13, <1>14 DEF Next

\* At every instant the numbers of the good copies are in order, and a save under way goes after
\* them all and over the older copy: what newest() and save_write's choice of a file rely on.
THEOREM SaveInvariant == ASSUME ~ReadFaults PROVE Spec => []IInv
<1>1. Init => IInv
  BY InitHolds
<1>2. IInv /\ [Next]_vars => IInv'
  BY StepHolds
<1> QED
  BY <1>1, <1>2, PTL DEF Spec

\* Once save_write has answered 0 the save is there, or a later one, through every crash, failed open
\* and write that broke off, until an erase begins.
THEOREM SaveKept == ASSUME ~ReadFaults PROVE Spec => []SaveSurvives
<1>1. IInv => SaveSurvives
  BY DEF IInv
<1> QED
  BY <1>1, SaveInvariant, PTL

-----------------------------------------------------------------------------
(* What a write leaves alone *)

\* The file a write goes over does not hold the latest save.
LEMMA TargetIsOlder ==
    ASSUME IInv, pc \in {"open", "write"}, NEW w \in Copies, IsGood(w), copy[w].data = Value
    PROVE  w # job.file
<1> SUFFICES ASSUME w = job.file PROVE FALSE
  OBVIOUS
<1>1. copy[w].data \in 1 .. MaxWrites
  BY FileFields DEF IInv, TypeOK, IsGood
<1>2. IF IsGood(Other(w)) THEN copy[Other(w)].data = Value ELSE Value = 0
  BY DEF IInv, Ahead
<1>3. IsGood(Other(w)) /\ copy[Other(w)].data = copy[w].data
  BY <1>1, <1>2, SaveAssumption
<1>4. IsGood(0) /\ IsGood(1)
  BY <1>3, TwoCopies
<1>5. PICK v \in Copies : copy[v].data > copy[Other(v)].data
  BY <1>4 DEF IInv, Ordered
<1> QED
  BY <1>1, <1>3, <1>5, TwoCopies, SaveAssumption

\* Each step of a save leaves the newest good copy as it is.
LEMMA SparesStep ==
    ASSUME IInv, [Next]_vars, NEW w \in Copies, pc \in {"open", "write"}, IsGood(w), copy[w].data = Value
    PROVE  copy'[w] = copy[w]
<1>1. w # job.file
  BY TargetIsOlder
<1>2. \/ UNCHANGED copy
      \/ \E file : copy' = [copy EXCEPT ![job.file] = file]
  BY DEF Next, vars, Read, Size, Load, WriteLook, WriteOpen, WriteClose, EraseFirst, EraseSecond, Crash
<1> QED
  BY <1>1, <1>2 DEF IInv, TypeOK

\* A save never goes over the newest good copy, whatever number it bears and whichever file it is
\* in: which = latest == 0 ? 1 : 0 in save_write.
THEOREM NewestIsSpared == ASSUME ~ReadFaults PROVE Spec => SparesNewest
<1>1. IInv /\ [Next]_vars =>
        [ \A w \in Copies : pc \in {"open", "write"} /\ IsGood(w) /\ copy[w].data = Value
             => copy'[w] = copy[w] ]_vars
  BY SparesStep
<1> QED
  BY <1>1, SaveInvariant, PTL DEF Spec, SparesNewest

-----------------------------------------------------------------------------
(* A save is atomic *)

\* The answer of a call that looks: the latest save when every copy could be opened.
LEMMA LookAnswers ==
    ASSUME ~ReadFaults, IInv, NEW look \in Looks, Finds(look)
    PROVE  /\ Newest(look) # None => /\ copy[Newest(look)].data \in 1 .. Value
                                     /\ ~Failed(look) => copy[Newest(look)].data = Value
           /\ Newest(look) = None /\ ~Failed(look) => Value = 0
<1>1. CASE Newest(look) = None
  BY <1>1, NewestIsLatest DEF IInv
<1>2. CASE Newest(look) # None
  <2>1. Newest(look) \in Copies /\ IsGood(Newest(look))
    BY <1>2, NewestIsGood DEF IInv
  <2>2. copy[Newest(look)].data \in 1 .. MaxWrites /\ copy[Newest(look)].data <= Value
    BY <2>1, ValueIs, FileFields DEF IInv, TypeOK, IsGood
  <2>3. ~Failed(look) => copy[Newest(look)].data = Value
    BY <1>2, NewestIsLatest DEF IInv
  <2> QED
    BY <1>2, <2>2, <2>3, ValueIs, SaveAssumption DEF IInv
<1> QED
  BY <1>1, <1>2

\* No answer of a call that looks says more than the slot does.
LEMMA ReadIsRead ==
    ASSUME ~ReadFaults, IInv, NEW call \in {"read", "size", "load"}, NEW look \in Looks, Finds(look),
           \/ ret' = NoCopy(call, look) /\ Newest(look) = None
           \/ ret' = Reply(call, "ok", copy[Newest(look)].data, ~Failed(look)) /\ Newest(look) # None
           \/ \E code \in {"error", "ENOSPC"} : ret' = Reply(call, code, 0, TRUE),
           pc = "idle", UNCHANGED <<copy, pc>>
    PROVE  Slot!Read
<1>1. Value' = Value
  BY DEF Value, Latest, GoodData
<1>2. ret'.call = call
  BY DEF Reply, NoCopy
<1>3. ret'.code = "ok" => ret'.data \in 1 .. Value /\ (ret'.sure => ret'.data = Value)
  <2> SUFFICES ASSUME ret'.code = "ok" PROVE ret'.data \in 1 .. Value /\ (ret'.sure => ret'.data = Value)
    OBVIOUS
  <2>1. Newest(look) # None /\ ret'.data = copy[Newest(look)].data /\ ret'.sure = ~Failed(look)
    BY DEF Reply, NoCopy
  <2>2. copy[Newest(look)].data \in 1 .. Value /\ (~Failed(look) => copy[Newest(look)].data = Value)
    BY <2>1, LookAnswers
  <2> QED
    BY <2>1, <2>2
<1>4. ret'.code = "ENOENT" => Value = 0
  BY LookAnswers DEF Reply, NoCopy
<1> QED
  BY <1>1, <1>2, <1>3, <1>4 DEF Slot!Read

\* Each way ReadInto answers is one of those.
LEMMA ReadIntoIsRead ==
    ASSUME ~ReadFaults, IInv, NEW call \in {"read", "load"}, NEW look \in Looks, Finds(look), NEW cap,
           ret' = ReadInto(call, look, cap), pc = "idle", UNCHANGED <<copy, pc>>
    PROVE  Slot!Read
<1>1. CASE Newest(look) = None
  BY <1>1, ReadIsRead DEF ReadInto
<1>2. CASE Newest(look) # None /\ copy[Newest(look)].size > cap
  BY <1>2, ReadIsRead DEF ReadInto
<1>3. CASE Newest(look) # None /\ ~(copy[Newest(look)].size > cap)
  BY <1>3, ReadIsRead DEF ReadInto
<1> QED
  BY <1>1, <1>2, <1>3

\* Each step of the two files is a step of the one value, or none.
LEMMA StepIsSlotStep ==
    ASSUME ~ReadFaults, IInv, [Next]_vars
    PROVE  [Slot!Next]_(Slot!svars)
<1>1. TypeOK'
  BY TypeStep
<1> DEFINE Goal == [Slot!Next]_(Slot!svars)
<1> SUFFICES Goal
  OBVIOUS
<1> USE DEF Slot!Next, Slot!svars
<1>2. UNCHANGED copy => Value' = Value
  BY DEF Value, Latest, GoodData
<1>3. ASSUME NEW cap \in Sizes, Read(cap) PROVE Goal
  BY <1>3, ReadIntoIsRead DEF Read
<1>4. CASE Size
  BY <1>4, ReadIsRead DEF Size
<1>5. CASE Load
  BY <1>5, ReadIsRead, ReadIntoIsRead DEF Load
<1>6. ASSUME NEW size \in Sizes, WriteLook(size) PROVE Goal
  <2>1. ret'.call \in {"none", "write"} /\ ret'.code # "ok" /\ pc = "idle" /\ pc' # "erase"
    BY <1>6 DEF WriteLook, Reply, Silent
  <2> QED
    BY <1>2, <1>6, <2>1 DEF WriteLook, Slot!NoSave, Slot!Answered
<1>7. ASSUME pc \in {"open", "write"}, pc' # "erase",
             NEW file, file \in Partly(copy[job.file]) \cup {Written},
             copy' = [copy EXCEPT ![job.file] = file],
             ret'.call \in {"none", "write"},
             ret'.call = "write" => ret'.data = job.data,
             ret'.call = "write" /\ ret'.code = "ok" => file = Written
      PROVE  Goal
  <2>1. \/ file = Written /\ Value' = job.data
        \/ file # Written /\ Value' = Value
    BY <1>1, <1>7, WriteEffect
  <2>2. Value < job.data
    BY <1>7 DEF IInv, Ahead
  <2>3. CASE file = Written /\ Value' = job.data
    BY <1>7, <2>2, <2>3 DEF Slot!Save
  <2>4. CASE file # Written /\ Value' = Value
    BY <1>7, <2>4 DEF Slot!NoSave, Slot!Answered
  <2> QED
    BY <2>1, <2>3, <2>4
<1>8. CASE WriteOpen
  <2>1. PICK file \in {copy[job.file], Headless} : copy' = [copy EXCEPT ![job.file] = file]
    BY <1>8 DEF WriteOpen
  <2>2. ret'.call \in {"none", "write"} /\ ret'.code # "ok" /\ (ret'.call = "write" => ret'.data = job.data)
    BY <1>8 DEF WriteOpen, Reply, Silent
  <2> QED
    BY <1>7, <1>8, <2>1, <2>2 DEF WriteOpen, Partly
<1>9. CASE WriteClose
  <2>1. PICK file \in Partly(copy[job.file]) \cup {Written} :
          /\ copy' = [copy EXCEPT ![job.file] = file]
          /\ \/ file = Written /\ ret' = Reply("write", "ok", job.data, TRUE)
             \/ ret' = Reply("write", "EIO", job.data, TRUE)
    BY <1>9 DEF WriteClose
  <2>2. ret'.call = "write" /\ ret'.data = job.data /\ (ret'.code = "ok" => file = Written)
    BY <2>1 DEF Reply
  <2> QED
    BY <1>7, <1>9, <2>1, <2>2 DEF WriteClose
<1>10. CASE Crash
  <2>1. ret'.call = "none" /\ pc' = "idle"
    BY <1>10 DEF Crash, Silent, Reply
  <2>2. CASE pc = "write"
    BY <1>7, <1>10, <2>1, <2>2 DEF Crash
  <2>3. CASE pc # "write"
    BY <1>2, <1>10, <2>1, <2>3 DEF Crash, Slot!NoSave, Slot!Answered
  <2> QED
    BY <2>2, <2>3
<1>11. CASE EraseFirst
  <2>1. Value' <= Value
    BY <1>1, <1>11, EraseEffect, TwoCopies DEF EraseFirst
  <2> QED
    BY <1>11, <2>1 DEF EraseFirst, Silent, Reply, Slot!Erase, Slot!Answered
<1>12. CASE EraseSecond
  <2>1. Value' <= Value
    BY <1>1, <1>12, EraseEffect, TwoCopies DEF EraseSecond
  <2>2. ASSUME erased' PROVE Value' = 0
    <3>1. copy[0] = Missing /\ copy' = [copy EXCEPT ![1] = Missing]
      BY <1>12, <2>2 DEF EraseSecond, Remove, IInv, Ahead
    <3>2. \A w \in Copies : copy'[w].kind # "good"
      BY <3>1, TwoCopies DEF Missing, File, IInv, TypeOK
    <3> QED
      BY <1>1, <3>2, ValueIsNext
  <2>3. ret'.call = "erase" /\ (ret'.code = "ok" => erased')
    BY <1>12 DEF EraseSecond, Reply
  <2> QED
    BY <1>12, <2>1, <2>2, <2>3 DEF EraseSecond, Slot!Erase, Slot!Answered
<1>13. CASE UNCHANGED vars
  BY <1>2, <1>13 DEF vars
<1> QED
  BY <1>3, <1>4, <1>5, <1>6, <1>8, <1>9, <1>10, <1>11, <1>12, <1>13 DEF Next

\* The two files implement one value replaced at one instant: every answer, and everything a stop of
\* the machine leaves behind, is one the atomic save could give (save.h's promise to the program).
THEOREM SavesImplementSlot == ASSUME ~ReadFaults PROVE Spec => SavesAreAtomic
<1>1. Init => Slot!Init
  <2> SUFFICES ASSUME Init PROVE Slot!Init
    OBVIOUS
  <2>1. TypeOK /\ \A w \in Copies : ~IsGood(w)
    BY InitHolds DEF IInv, Init, Missing, File, IsGood
  <2>2. Value = 0
    BY <2>1, ValueIs
  <2> QED
    BY <2>2 DEF Init, Slot!Init, Silent, Reply
<1>2. IInv /\ [Next]_vars => [Slot!Next]_(Slot!svars)
  BY StepIsSlotStep
<1> QED
  BY <1>1, <1>2, SaveInvariant, PTL DEF Spec, SavesAreAtomic, Slot!Spec
=============================================================================
