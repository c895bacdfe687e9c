------------------------- MODULE AttachmentsProofs -------------------------
(***************************************************************************)
(* Proofs about Attachments: type correctness, that an image with its      *)
(* metadata is never public, that a completed row serves what was checked, *)
(* that access lists follow the row, and that no upload is rejected for    *)
(* the place where its beginning was cut.  What making an image the main   *)
(* one of a story breaks is left out by the properties themselves.         *)
(*                                                                         *)
(* The inductive invariant comes in layers, and the proof that a step      *)
(* keeps one may use those before it, in both states:                      *)
(*   Located    who can be where, and what it holds there;                 *)
(*   Early      until an upload is checked nobody else touches the file;   *)
(*   Verified   what was checked is what is stored, served and published;  *)
(*   Agreed     the visibility under the lock is the one the row will say, *)
(*              and the one that makes a main image met nobody, or this is *)
(*              remembered.                                                *)
(***************************************************************************)
EXTENDS Attachments, SequenceTheorems, TLAPS

-----------------------------------------------------------------------------
(* The inductive invariant. *)

Operation(a) == IF a = Worker THEN {"apply"} ELSE {"public", "private", "delete", "restore"}

WorkerPlaces == {"idle", "replace", "derive", "finish", "lock", "acl", "save",
                 "purge", "purgeRow", "markFailed"}
SweepPlaces == {"idle", "claim", "purge"}

Located ==
  /\ \A q \in Requests : at[q] \notin {"replace", "derive", "finish", "markFailed"}
  /\ at[Worker] \in WorkerPlaces
  /\ at[Sweep] \in SweepPlaces
  /\ my[Sweep] = Blank
  /\ \A a \in Actors :
       /\ lock = a <=> at[a] \in {"acl", "save"}
       /\ at[a] = "idle" => my[a] = Blank
       /\ at[a] \in {"lock", "acl", "save"} => my[a].op \in Operation(a)
       /\ at[a] \in {"lock", "save", "replace", "derive", "finish", "flag"} => my[a].keys = {}
       /\ my[a].keys \subseteq {"file", "thumbnail"}
  /\ late \subseteq ({"file", "thumbnail"} \X BOOLEAN)
  /\ lock # None => row # None
  /\ at[Worker] \in {"replace", "derive"} => my[Worker].content \in Stored

\* The request has claimed the upload and is not done with it.
InFlight(q) == at[q] \in {"head", "sniff", "copy", "dropUpload", "publish", "commit",
                          "reopen", "unclaim", "reject", "rejectRow"}

Unchecked == {"pending_upload", "verifying", "rejected"}

Waiting == \/ row # None /\ row.securityStatus \in Unchecked
           \/ \E q \in Requests : InFlight(q)

Early ==
  /\ \A q \in Requests : InFlight(q) =>
       /\ row # None => row.securityStatus = "verifying"
       /\ \A r \in Requests : InFlight(r) => r = q
  /\ Waiting =>
       /\ job = 0
       /\ ~Shows
       /\ at[Worker] = "idle"
       /\ \A call \in late : ~call[2]
       /\ \A a \in Actors : at[a] = "acl" => ~my[a].acl
  /\ at[Sweep] = "purge" \/ at[Worker] \in {"purge", "purgeRow"} => row = None
  /\ late # {} => torn

Clean(key) == objects[key] # None => ~objects[key].content.metadata

\* What is stored under the row's key is what the row declares.
FileVerified ==
  \/ objects["file"] = None /\ torn
  \/ objects["file"] # None /\ BeginsValid(row.declared, objects["file"].content)

\* The file is clean, or it was made a main image before it was.
CleanOrShown == Clean("file") \/ "raw" \in shown

\* No object is public before it is clean, but for a main image.
Private ==
  /\ objects["incoming"] # None => ~objects["incoming"].public
  /\ Clean("thumbnail")
  /\ objects["file"] # None /\ objects["file"].public => CleanOrShown

\* Who may show the file, or is about to, finds it clean; a main image may be raw.
Stripped ==
  /\ row # None /\ row.securityStatus = "completed" => Clean("file")
  /\ \A a \in Actors : at[a] = "acl" /\ my[a].acl => Clean("file")
  /\ <<"file", TRUE>> \in late => CleanOrShown
  /\ \A q \in Requests : at[q] = "show" => CleanOrShown
  /\ at[Worker] \in {"derive", "finish", "lock", "acl", "save"} => Clean("file")

\* What the worker is about to store.
WorkerCopy ==
  at[Worker] \in {"replace", "derive"} =>
    /\ ~my[Worker].content.metadata
    /\ row # None => BeginsValid(row.declared, my[Worker].content)

\* What a request has read, checked and copied.
RequestCopy(q) ==
  /\ at[q] \in {"sniff", "copy", "dropUpload", "publish", "commit"} =>
       my[q].content \in Stored
  /\ at[q] \in {"copy", "dropUpload", "publish", "commit"} /\ row # None =>
       BeginsValid(row.declared, my[q].content)
  /\ at[q] \in {"dropUpload", "publish", "commit"} =>
       IF objects["file"] = None THEN row # None => torn
       ELSE objects["file"].content = my[q].content
  /\ at[q] = "publish" => my[q].content.detected \notin Images

\* What a checked row serves.
RowVerified == row # None /\ row.securityStatus \notin Unchecked => FileVerified

Verified ==
  /\ Private
  /\ Stripped
  /\ WorkerCopy
  /\ \A q \in Requests : RequestCopy(q)
  /\ RowVerified

ProcessedImage == row # None /\ IsImage(row) /\ row.securityStatus = "completed"

\* The objects under these keys have this visibility.
Visible(keys, public) ==
  \A key \in keys : objects[key] # None /\ objects[key].public = public

\* Who holds the row's lock gives the visibility the row will have.
AclDecided ==
  \A a \in Actors : lock = a /\ row.securityStatus = "completed" =>
    my[a].acl = (Saved(my[a].op).isPublic /\ ~Saved(my[a].op).deleted)

\* No change broke off half way, and no main image met another change.
Whole == ~torn /\ "crossed" \notin shown

\* Between two changes the objects have the visibility of the row.
AclServed ==
  ProcessedImage /\ Whole /\ Unlocked /\ ~Shows /\ at[Worker] = "idle" =>
    Visible(StorageKeys(row), row.isPublic /\ ~row.deleted)

\* During a change those it is done with have the new one.
AclUnderWay ==
  \A a \in Actors :
    ProcessedImage /\ Whole /\ lock = a /\ (a = Worker \/ at[Worker] = "idle") =>
      Visible(StorageKeys(row) \ my[a].keys, my[a].acl)

\* While a main image is made nobody else changes the row or its objects; those that
\* are done are public.
AclShown ==
  \A q \in Requests : at[q] \in {"show", "flag"} /\ Whole =>
    /\ Unlocked /\ at[Worker] = "idle"
    /\ row # None => ~row.deleted /\ Visible(StorageKeys(row) \ my[q].keys, TRUE)

Agreed == AclDecided /\ AclServed /\ AclUnderWay /\ AclShown

-----------------------------------------------------------------------------
(* What a client may post. *)

\* The stripped copy of a content is stored too, and shows the same type and bytes.
LEMMA StoredFacts ==
  ASSUME NEW content \in Stored
  PROVE  /\ StripSensitiveData(content) \in Stored
         /\ ~StripSensitiveData(content).metadata
         /\ StripSensitiveData(content).detected = content.detected
         /\ StripSensitiveData(content).bytes = content.bytes
         /\ content = [detected |-> content.detected, bytes |-> content.bytes,
                       metadata |-> content.metadata]
         /\ content.bytes \in Seq(0..Invalid)
         /\ content.metadata \in BOOLEAN
         /\ content.metadata => Alias(content.detected) \in Images
         /\ content # None
<1>1. PICK posted \in Contents :
        content = posted \/ content = [posted EXCEPT !.metadata = FALSE]
  BY DEF Stored
<1>2. /\ posted = [detected |-> posted.detected, bytes |-> posted.bytes,
                   metadata |-> posted.metadata]
      /\ posted.bytes \in Seq(0..Invalid)
      /\ posted.metadata \in BOOLEAN
      /\ posted.metadata => Alias(posted.detected) \in Images
  BY AttachmentsAssumption DEF AttachmentsAssumption
<1> DEFINE plain == [posted EXCEPT !.metadata = FALSE]
<1>3. /\ plain \in Stored
      /\ plain = [detected |-> posted.detected, bytes |-> posted.bytes, metadata |-> FALSE]
  <2>1. plain \in {[c EXCEPT !.metadata = FALSE] : c \in Contents}
    OBVIOUS
  <2>2. plain \in Stored
    BY <2>1 DEF Stored
  <2>3. plain = [detected |-> posted.detected, bytes |-> posted.bytes, metadata |-> FALSE]
    <3> DEFINE Forms(metadata) == [detected : {posted.detected}, bytes : {posted.bytes},
                                   metadata : metadata]
    <3>1. posted \in Forms({posted.metadata})
      BY <1>2
    <3>2. plain \in Forms({FALSE})
      BY <3>1
    <3> HIDE DEF plain
    <3> QED BY <3>2
  <2> QED BY <2>2, <2>3
<1>4. StripSensitiveData(content) = plain
  BY <1>1, <1>2 DEF StripSensitiveData
<1>5. content # None
  BY AttachmentsAssumption DEF AttachmentsAssumption
<1> QED BY <1>1, <1>2, <1>3, <1>4, <1>5

\* Only an image can carry metadata, by whatever name its type goes.
LEMMA MetadataIsOfImages ==
  ASSUME NEW content \in Stored, content.metadata
  PROVE  content.detected \in Images
BY StoredFacts DEF Alias, Images

\* What one image is prepared or derived to is its stripped copy.
LEMMA Stripping ==
  ASSUME NEW content \in Stored
  PROVE  /\ Prepare(content) = StripSensitiveData(content)
         /\ Thumbnail(content) = StripSensitiveData(content)
         /\ OptimizeImage(content) = StripSensitiveData(content)
<1>1. StripSensitiveData(content).metadata = FALSE
  BY StoredFacts DEF StripSensitiveData
<1>2. StripSensitiveData(StripSensitiveData(content)) = StripSensitiveData(content)
  BY StoredFacts DEF StripSensitiveData
<1> QED BY <1>2 DEF Prepare, Thumbnail, OptimizeImage, StripSensitiveData

-----------------------------------------------------------------------------
(* Where a text may be cut. *)

\* A text cut where no character is open is a text.
LEMMA CutBetweenCharacters ==
  ASSUME NEW bytes \in Seq(0..Invalid), IsUtf8(bytes),
         NEW m \in 0..Len(bytes),
         \A i \in 1..m : bytes[i] \in 2..4 => i + bytes[i] - 1 <= m
  PROVE  IsUtf8(SubSeq(bytes, 1, m))
<1> DEFINE cut == SubSeq(bytes, 1, m)
<1>1. Len(cut) = m /\ DOMAIN cut = 1..m /\ \A i \in 1..m : cut[i] = bytes[i]
  BY SubSeqProperties
<1>2. DOMAIN bytes = 1..Len(bytes) /\ Len(bytes) \in Nat
  OBVIOUS
<1>3. \A i \in 1..m : i \in DOMAIN bytes /\ bytes[i] \in 0..Invalid
  BY <1>2 DEF Invalid
<1>4. Invalid \notin {cut[i] : i \in DOMAIN cut}
  BY <1>1, <1>3 DEF IsUtf8
<1>5. ASSUME NEW i \in DOMAIN cut, cut[i] \in 2..4
      PROVE  /\ i + cut[i] - 1 <= Len(cut)
             /\ \A j \in (i + 1)..(i + cut[i] - 1) : cut[j] = 0
  <2>1. i + bytes[i] - 1 <= m /\ bytes[i] = cut[i] /\ i \in DOMAIN bytes
    BY <1>1, <1>3, <1>5
  <2>2. \A j \in (i + 1)..(i + bytes[i] - 1) : bytes[j] = 0
    BY <1>5, <2>1 DEF IsUtf8
  <2>3. ASSUME NEW j \in (i + 1)..(i + bytes[i] - 1)
        PROVE  j \in 1..m
    BY <1>1, <1>5, <2>1, <2>3
  <2> QED BY <1>1, <2>1, <2>2, <2>3
<1>6. ASSUME NEW i \in DOMAIN cut, cut[i] \notin 2..4, cut[i] = 0
      PROVE  \E k \in 1..3 : i - k >= 1 /\ cut[i - k] \in (k + 1)..4
                             /\ \A j \in (i - k + 1)..i : cut[j] = 0
  <2>1. PICK k \in 1..3 : i - k >= 1 /\ bytes[i - k] \in (k + 1)..4
                          /\ \A j \in (i - k + 1)..i : bytes[j] = 0
    BY <1>1, <1>3, <1>6 DEF IsUtf8
  <2>2. i - k \in 1..m
    BY <1>1, <1>6, <2>1
  <2>3. \A j \in (i - k + 1)..i : j \in 1..m
    BY <1>1, <1>6, <2>1
  <2> QED BY <1>1, <2>1, <2>2, <2>3
<1>7. IsUtf8(cut)
  BY <1>4, <1>5, <1>6 DEF IsUtf8
<1> QED BY <1>7

\* The head of a text, without the character its cut left open, is a text again.
THEOREM HeadOfText ==
  ASSUME NEW bytes \in Seq(0..Invalid), IsUtf8(bytes),
         \A i \in DOMAIN bytes : bytes[i] # Zero,
         NEW n \in 0..Len(bytes)
  PROVE  LET text == WithoutPartialUtf8Tail(SubSeq(bytes, 1, n))
         IN  IsUtf8(text) /\ \A i \in DOMAIN text : text[i] # Zero
<1> DEFINE head == SubSeq(bytes, 1, n)
<1> DEFINE starts == {back \in 1..3 : back <= Len(head) /\ head[Len(head) + 1 - back] # 0}
<1> DEFINE last == CHOOSE back \in starts : \A b \in starts : back <= b
<1>1. Len(bytes) \in Nat /\ DOMAIN bytes = 1..Len(bytes) /\ n \in Nat /\ n <= Len(bytes)
  OBVIOUS
<1>2. \A i \in 1..Len(bytes) : bytes[i] \in 0..Invalid /\ bytes[i] # Zero /\ bytes[i] # Invalid
  <2>1. \A i \in DOMAIN bytes : bytes[i] # Invalid
    BY DEF IsUtf8
  <2>2. \A i \in 1..Len(bytes) : bytes[i] \in 0..Invalid
    BY ElementOfSeq
  <2> QED BY <1>1, <2>1, <2>2
<1>3. \A i \in 1..n : bytes[i] \in 0..4
  BY <1>1, <1>2 DEF Zero, Invalid
<1>4. ASSUME NEW m \in 0..n
      PROVE  /\ SubSeq(bytes, 1, m) \in Seq(0..Invalid)
             /\ Len(SubSeq(bytes, 1, m)) = m
             /\ \A i \in 1..m : SubSeq(bytes, 1, m)[i] = bytes[i]
  <2>1. /\ 1 \in Int /\ m \in Int /\ m - 1 + 1 = m
        /\ (IF 1 <= m THEN m - 1 + 1 ELSE 0) = m
        /\ \A i \in 1..m : bytes[i] \in 0..Invalid /\ 1 + i - 1 = i
    BY <1>1, <1>2
  <2> QED BY <2>1, SubSeqProperties
<1>5. /\ head \in Seq(0..Invalid) /\ Len(head) = n
      /\ \A i \in 1..n : head[i] = bytes[i]
  <2>1. n \in 0..n
    BY <1>1
  <2> QED BY <1>4, <2>1
<1>6. \A back : back \in starts <=> back \in 1..3 /\ back <= n /\ bytes[n + 1 - back] # 0
  <2>1. \A back \in 1..3 : back <= n => n + 1 - back \in 1..n
    BY <1>1
  <2> HIDE DEF head
  <2> QED BY <1>5, <2>1
\* A character open at a place has nothing but continuations up to there.
<1>7. ASSUME NEW m \in 0..n, NEW i \in 1..m, bytes[i] \in 2..4, ~(i + bytes[i] - 1 <= m)
      PROVE  \A j \in (i + 1)..(i + bytes[i] - 1) : bytes[j] = 0
  <2>1. i \in DOMAIN bytes
    BY <1>1
  <2> QED BY <1>7, <2>1 DEF IsUtf8
<1>8. ASSUME NEW m \in 0..n, NEW text, text = SubSeq(bytes, 1, m),
             \A i \in 1..m : bytes[i] \in 2..4 => i + bytes[i] - 1 <= m
      PROVE  IsUtf8(text) /\ \A i \in DOMAIN text : text[i] # Zero
  <2>1. m \in 0..Len(bytes)
    BY <1>1
  <2>2. IsUtf8(text)
    BY <1>8, <2>1, CutBetweenCharacters
  <2>3. DOMAIN text = 1..m /\ \A i \in 1..m : text[i] = bytes[i] /\ i \in 1..Len(bytes)
    BY <1>4, <1>8, <2>1
  <2> QED BY <1>2, <2>2, <2>3
<1>9. CASE starts = {}
  <2>1. WithoutPartialUtf8Tail(head) = head
    BY <1>9 DEF WithoutPartialUtf8Tail
  <2>2. ASSUME NEW i \in 1..n, bytes[i] \in 2..4, ~(i + bytes[i] - 1 <= n)
        PROVE  FALSE
    <3> HIDE DEF starts
    <3>1. n + 1 - i \in 1..3 /\ n + 1 - i <= n /\ n + 1 - (n + 1 - i) = i
      BY <1>1, <2>2
    <3>2. bytes[n + 1 - (n + 1 - i)] # 0
      BY <2>2, <3>1
    <3> QED BY <1>6, <1>9, <3>1, <3>2
  <2>3. n \in 0..n
    BY <1>1
  <2> HIDE DEF starts
  <2> QED BY <1>8, <2>1, <2>2, <2>3
<1>10. CASE starts # {}
  <2>1. last \in starts /\ \A b \in starts : last <= b
    <3>1. \E back \in starts : \A b \in starts : back <= b
      <4> HIDE DEF starts
      <4>1. CASE 1 \in starts
        BY <1>6, <4>1
      <4>2. CASE 1 \notin starts /\ 2 \in starts
        BY <1>6, <4>2
      <4>3. CASE 1 \notin starts /\ 2 \notin starts
        BY <1>6, <1>10, <4>3
      <4> QED BY <4>1, <4>2, <4>3
    <3> HIDE DEF starts
    <3> QED BY <3>1
  <2>2. PICK s : s = n + 1 - last
    OBVIOUS
  <2>3. WithoutPartialUtf8Tail(head) =
          LET expected == IF head[Len(head) + 1 - last] \in 1..4
                          THEN head[Len(head) + 1 - last]
                          ELSE IF head[Len(head) + 1 - last] = Invalid THEN 4 ELSE 1
          IN  IF starts # {} /\ expected > last
              THEN SubSeq(head, 1, Len(head) - last) ELSE head
    BY Zenon DEF WithoutPartialUtf8Tail
  <2> HIDE DEF starts, last
  <2>4. /\ last \in 1..3 /\ last <= n /\ bytes[n + 1 - last] # 0
        /\ n - last \in 0..n /\ s \in 1..n /\ s + last = n + 1
    BY <1>1, <1>6, <2>1, <2>2
  <2>5. bytes[s] \in 1..4
    BY <1>3, <2>2, <2>4
  <2>6. WithoutPartialUtf8Tail(head) =
          IF bytes[s] > last THEN SubSeq(head, 1, n - last) ELSE head
    <3>1. head[Len(head) + 1 - last] = bytes[s]
      BY <1>5, <2>2, <2>4
    <3> QED BY <1>5, <1>10, <2>3, <2>5, <3>1
  <2>7. CASE bytes[s] > last
    <3>1. ASSUME NEW i \in 1..(n - last), bytes[i] \in 2..4, ~(i + bytes[i] - 1 <= n - last)
          PROVE  FALSE
      <4>1. s \in (i + 1)..(i + bytes[i] - 1)
        BY <1>1, <2>4, <3>1
      <4> QED BY <1>7, <2>4, <2>5, <3>1, <4>1
    <3>2. SubSeq(head, 1, n - last) = SubSeq(bytes, 1, n - last)
      <4>1. /\ 1 \in Int /\ n - last \in Int /\ n - last - 1 + 1 = n - last
            /\ (IF 1 <= n - last THEN n - last - 1 + 1 ELSE 0) = n - last
            /\ \A i \in 1..(n - last) : i \in 1..n /\ 1 + i - 1 = i
        BY <1>1, <2>4
      <4>2. \A i \in 1..(n - last) : head[i] \in 0..Invalid
        BY <1>2, <1>5, <1>1, <4>1
      <4>3. /\ SubSeq(head, 1, n - last) \in Seq(0..Invalid)
            /\ Len(SubSeq(head, 1, n - last)) = n - last
            /\ \A i \in 1..(n - last) : SubSeq(head, 1, n - last)[i] = head[i]
        <5> HIDE DEF head
        <5> QED BY <4>1, <4>2, SubSeqProperties
      <4>4. /\ SubSeq(bytes, 1, n - last) \in Seq(0..Invalid)
            /\ Len(SubSeq(bytes, 1, n - last)) = n - last
            /\ \A i \in 1..(n - last) : SubSeq(bytes, 1, n - last)[i] = bytes[i]
        BY <1>4, <2>4
      <4>5. \A i \in 1..(n - last) : SubSeq(head, 1, n - last)[i] = SubSeq(bytes, 1, n - last)[i]
        BY <1>5, <4>1, <4>3, <4>4
      <4> HIDE DEF head
      <4> QED BY <4>3, <4>4, <4>5, SeqEqual
    <3>3. WithoutPartialUtf8Tail(head) = SubSeq(bytes, 1, n - last)
      BY <2>6, <2>7, <3>2
    <3> QED BY <1>8, <2>4, <3>1, <3>3
  <2>8. CASE ~(bytes[s] > last)
    <3>1. ASSUME NEW i \in 1..n, bytes[i] \in 2..4, ~(i + bytes[i] - 1 <= n)
          PROVE  FALSE
      <4>1. /\ n + 1 - i \in 1..3 /\ n + 1 - i <= n /\ n + 1 - (n + 1 - i) = i
        BY <1>1, <3>1
      <4>2. last <= n + 1 - i
        <5>1. bytes[n + 1 - (n + 1 - i)] # 0
          BY <3>1, <4>1
        <5> QED BY <1>6, <2>1, <4>1, <5>1
      <4>3. i # s
        BY <1>1, <2>4, <2>5, <2>8, <3>1
      <4>4. s \in (i + 1)..(i + bytes[i] - 1)
        BY <1>1, <2>4, <3>1, <4>2, <4>3
      <4>5. n \in 0..n
        BY <1>1
      <4> QED BY <1>7, <2>5, <3>1, <4>4, <4>5
    <3>2. n \in 0..n /\ WithoutPartialUtf8Tail(head) = head
      <4> HIDE DEF head
      <4> QED BY <1>1, <2>6, <2>8
    <3> QED BY <1>8, <3>1, <3>2
  <2> QED BY <2>7, <2>8
<1> QED BY <1>9, <1>10

-----------------------------------------------------------------------------
(* What validation looks at. *)

LEMMA BeginningFacts ==
  ASSUME NEW content \in Stored
  PROVE  LET n == IF Len(content.bytes) < SniffBytes THEN Len(content.bytes) ELSE SniffBytes
         IN  /\ Beginning(content, SniffBytes).detected = content.detected
             /\ Beginning(content, SniffBytes).bytes = SubSeq(content.bytes, 1, n)
             /\ n \in 0..Len(content.bytes)
             /\ Len(content.bytes) \in Nat /\ SniffBytes \in Nat
<1>1. Len(content.bytes) \in Nat /\ SniffBytes \in Nat
  BY StoredFacts, AttachmentsAssumption DEF AttachmentsAssumption
<1>2. PICK d, b, m : content = [detected |-> d, bytes |-> b, metadata |-> m]
  BY StoredFacts
<1> QED BY <1>1, <1>2 DEF Beginning

\* Validation does not see the metadata.
LEMMA SameBytesBeginAlike ==
  ASSUME NEW file, NEW content \in Stored, NEW other \in Stored,
         content.detected = other.detected, content.bytes = other.bytes
  PROVE  BeginsValid(file, content) <=> BeginsValid(file, other)
BY BeginningFacts DEF BeginsValid, ContentValid, ContentMatches

\* A stripped file begins as it did.
LEMMA StrippedBeginsAlike ==
  ASSUME NEW file, NEW content \in Stored
  PROVE  BeginsValid(file, StripSensitiveData(content)) <=> BeginsValid(file, content)
BY StoredFacts, SameBytesBeginAlike

\* A file that is valid as a whole is valid by its beginning, wherever that ends.
LEMMA ValidBegins ==
  ASSUME NEW file, NEW content \in Stored, ContentValid(file, content, FALSE)
  PROVE  BeginsValid(file, content)
<1> DEFINE L == Len(content.bytes)
<1> DEFINE n == IF L < SniffBytes THEN L ELSE SniffBytes
<1> DEFINE head == Beginning(content, SniffBytes)
<1>1. /\ head.detected = content.detected
      /\ head.bytes = SubSeq(content.bytes, 1, n)
      /\ n \in 0..L /\ L \in Nat /\ SniffBytes \in Nat
  BY BeginningFacts
<1>2. content.bytes \in Seq(0..Invalid)
  BY StoredFacts
<1>3. CASE Alias(file.mimetype) \notin Texts
  BY <1>1, <1>3 DEF BeginsValid, ContentValid, ContentMatches
<1>4. CASE Alias(file.mimetype) \in Texts
  <2>1. /\ content.detected = None
        /\ IsUtf8(content.bytes)
        /\ \A i \in DOMAIN content.bytes : content.bytes[i] # Zero
    BY <1>4 DEF ContentValid, ContentMatches
  <2>2. CASE L > SniffBytes
    <3>1. LET text == WithoutPartialUtf8Tail(head.bytes)
          IN  IsUtf8(text) /\ \A i \in DOMAIN text : text[i] # Zero
      BY <1>1, <1>2, <2>1, HeadOfText
    <3> HIDE DEF head
    <3>2. ContentMatches(file.mimetype, head, TRUE)
      BY <1>1, <1>4, <2>1, <3>1 DEF ContentMatches
    <3>3. (L > SniffBytes) = TRUE
      BY <2>2
    <3> QED BY <3>2, <3>3 DEF BeginsValid, ContentValid, head
  <2>3. CASE ~(L > SniffBytes)
    <3>1. n = L
      BY <1>1, <2>3
    <3>2. head.bytes = content.bytes
      <4>1. SubSeq(content.bytes, 1, L) = content.bytes
        BY <1>2
      <4> QED BY <1>1, <3>1, <4>1
    <3> HIDE DEF head
    <3>3. ContentMatches(file.mimetype, head, FALSE)
      BY <1>1, <1>4, <2>1, <3>2 DEF ContentMatches
    <3>4. (L > SniffBytes) = FALSE
      BY <1>1, <2>3
    <3> QED BY <3>3, <3>4 DEF BeginsValid, ContentValid, head
  <2> QED BY <2>2, <2>3
<1> QED BY <1>3, <1>4

\* What passes for an image is one, and what passes for another type carries no metadata.
LEMMA MatchingTypes ==
  ASSUME NEW file, NEW content \in Stored,
         ContentValid(file, content, FALSE) \/ BeginsValid(file, content)
  PROVE  /\ file.mimetype \in Images => content.detected \in Images
         /\ file.mimetype \notin Images => ~content.metadata
<1>1. /\ file.mimetype \in AllowedTypes
      /\ \/ content.detected \in {None, "application/x-cfb", "application/zip"}
         \/ content.detected = Alias(file.mimetype)
      /\ Alias(file.mimetype) \in {"image/jpeg", "image/png"} =>
           content.detected = Alias(file.mimetype)
  BY BeginningFacts
  DEF BeginsValid, ContentValid, DeclaredValid, ContentMatches, Texts, LegacyOffice, OpenXml
<1>2. None \notin AllowedTypes
  BY AttachmentsAssumption DEF AttachmentsAssumption
<1>3. ASSUME file.mimetype \in Images
      PROVE  content.detected \in Images
  BY <1>1, <1>3 DEF Alias, Images
<1>4. ASSUME file.mimetype \notin Images, content.metadata
      PROVE  FALSE
  <2>1. content.detected \in Images
    BY <1>4, MetadataIsOfImages
  <2>2. None \notin Images
    BY <1>2 DEF AllowedTypes
  <2> QED BY <1>1, <1>4, <2>1, <2>2 DEF Alias, Images
<1> QED BY <1>3, <1>4

-----------------------------------------------------------------------------
(* Types. *)

LEMMA ActorFacts ==
  /\ Completing \subseteq Requests /\ Changing \subseteq Requests /\ Showing \subseteq Requests
  /\ Requests \subseteq Actors /\ Worker \in Actors /\ Sweep \in Actors
  /\ Worker \notin Requests /\ Sweep \notin Requests /\ Worker # Sweep
  /\ None \notin Actors
BY AttachmentsAssumption DEF AttachmentsAssumption, Actors, Worker, Sweep

\* The fields of a row, of an object and of what an actor holds.
LEMMA RowFields ==
  ASSUME NEW r \in Row
  PROVE  /\ r # None
         /\ r.declared \in Files /\ r.securityStatus \in Statuses
         /\ r.isPublic \in BOOLEAN /\ r.deleted \in BOOLEAN /\ r.derived \in BOOLEAN
BY AttachmentsAssumption DEF AttachmentsAssumption, Row

LEMMA LocalFields ==
  ASSUME NEW l \in Locals
  PROVE  /\ l.op \in Operations /\ l.acl \in BOOLEAN /\ l.keys \subseteq Keys
         /\ l.content \in Stored \cup {None}
BY DEF Locals

LEMMA ObjectFields ==
  ASSUME NEW o \in Object
  PROVE  o # None /\ o.content \in Stored /\ o.public \in BOOLEAN
BY AttachmentsAssumption DEF AttachmentsAssumption, Object

\* The row a change saves differs from the one it read in one flag.
LEMMA SavedFacts ==
  ASSUME TypeOK, row # None, NEW op
  PROVE  /\ Saved(op) \in Row
         /\ Saved(op).declared = row.declared
         /\ Saved(op).securityStatus = row.securityStatus
         /\ Saved(op).derived = row.derived
<1>1. ASSUME NEW b \in BOOLEAN, NEW new,
             new \in {[row EXCEPT !.isPublic = b], [row EXCEPT !.deleted = b], row}
      PROVE  /\ new \in Row
             /\ new.declared = row.declared
             /\ new.securityStatus = row.securityStatus
             /\ new.derived = row.derived
  BY <1>1 DEF TypeOK, Row
<1>2. \E b \in BOOLEAN :
        Saved(op) \in {[row EXCEPT !.isPublic = b], [row EXCEPT !.deleted = b], row}
  BY DEF Saved
<1> QED BY <1>1, <1>2

LEMMA PutTyped ==
  ASSUME NEW o \in [Keys -> Object \cup {None}], NEW key \in Keys,
         NEW content \in Stored, NEW public \in BOOLEAN
  PROVE  [o EXCEPT ![key] = [content |-> content, public |-> public]]
           \in [Keys -> Object \cup {None}]
BY DEF Object

LEMMA StoredObject ==
  ASSUME NEW content \in Stored, NEW public \in BOOLEAN
  PROVE  [content |-> content, public |-> public] # None
<1>1. [content |-> content, public |-> public] \in Object
  BY DEF Object
<1> QED BY <1>1, ObjectFields

\* A change of visibility leaves the contents alone.
LEMMA PublicUpdated ==
  ASSUME NEW o \in [Keys -> Object \cup {None}], NEW key \in Keys, o[key] # None,
         NEW public \in BOOLEAN
  PROVE  LET new == [o EXCEPT ![key].public = public]
         IN  /\ new \in [Keys -> Object \cup {None}]
             /\ \A k \in Keys : k # key => new[k] = o[k]
             /\ new[key] # None /\ new[key].content = o[key].content
             /\ new[key].public = public
<1>1. [o EXCEPT ![key].public = public] \in [Keys -> Object \cup {None}]
  BY DEF Object
<1>2. [o EXCEPT ![key].public = public][key] \in Object
  BY DEF Object
<1> QED BY <1>1, <1>2, ObjectFields DEF Object

LEMMA MadePublic ==
  ASSUME NEW o \in [Keys -> Object \cup {None}], NEW key \in Keys, o[key] # None
  PROVE  LET new == [o EXCEPT ![key].public = TRUE]
         IN  /\ \A k \in Keys : k # key => new[k] = o[k]
             /\ new[key] # None /\ new[key].content = o[key].content
             /\ new[key].public
<1>1. [o EXCEPT ![key].public = TRUE][key] \in Object
  BY DEF Object
<1> QED BY <1>1, ObjectFields DEF Object

\* The call under way when the making of a main image breaks off.
LEMMA LateCalls ==
  ASSUME NEW keys, NEW all, keys \subseteq all
  PROVE  {<<key, TRUE>> : key \in keys} \subseteq (all \X BOOLEAN)
<1> SUFFICES ASSUME NEW key \in keys
             PROVE  <<key, TRUE>> \in all \X BOOLEAN
  OBVIOUS
<1> QED OBVIOUS

LEMMA TypeInit == Init => TypeOK
<1> SUFFICES ASSUME Init
             PROVE  TypeOK
  OBVIOUS
<1>1. objects \in [Keys -> Object \cup {None}]
  BY DEF Init
<1>2. my \in [Actors -> Locals]
  BY DEF Init, Blank, Locals, Operations
<1>3. at \in [Actors -> Places]
  BY DEF Init, Places
<1>4. late \subseteq (Keys \X BOOLEAN) /\ job \in 0..2
  BY DEF Init
<1> QED BY <1>1, <1>2, <1>3, <1>4 DEF Init, TypeOK

LEMMA TypeStep == TypeOK /\ Located /\ [Next]_vars => TypeOK'
<1> SUFFICES ASSUME TypeOK, Located, [Next]_vars
             PROVE  TypeOK'
  OBVIOUS
<1> USE ActorFacts
<1>0. Blank \in Locals
  BY DEF Blank, Locals, Operations
<1>1. ASSUME NEW q \in Completing, AskComplete(q)
      PROVE  TypeOK'
  <2>1. my' \in [Actors -> Locals]
    BY <1>1, RowFields DEF TypeOK, AskComplete, Locals
  <2> QED BY <1>0, <1>1, <2>1 DEF AskComplete, TypeOK, Go, Leave, Places
<1>2. ASSUME NEW q \in Completing, Claim(q)
      PROVE  TypeOK'
  <2>1. row' \in Row \cup {None}
    BY <1>2 DEF TypeOK, Claim, Statuses, Row
  <2> QED BY <1>0, <1>2, <2>1 DEF Claim, TypeOK, Go, Leave, Places
<1>3. ASSUME NEW q \in Completing, HeadObject(q)
      PROVE  TypeOK'
  <2>1. my' \in [Actors -> Locals]
    BY <1>3, ObjectFields DEF TypeOK, HeadObject, Locals, Keys
  <2> QED BY <1>0, <1>3, <2>1 DEF HeadObject, TypeOK, Go, Leave, Places
<1>4. ASSUME NEW q \in Completing, SniffContent(q)
      PROVE  TypeOK'
  BY <1>4, <1>0 DEF SniffContent, TypeOK, Go, Leave, Places, Keys, Put, Remove
<1>5. ASSUME NEW q \in Completing, CopyIfUnchanged(q)
      PROVE  TypeOK'
  <2>1. objects' \in [Keys -> Object \cup {None}]
    BY <1>5, ObjectFields, PutTyped DEF TypeOK, CopyIfUnchanged, Unchanged, Put, Keys
  <2> QED BY <1>0, <1>5, <2>1 DEF CopyIfUnchanged, TypeOK, Go, Leave, Places
<1>6. ASSUME NEW q \in Completing, DropUpload(q)
      PROVE  TypeOK'
  BY <1>6, <1>0 DEF DropUpload, TypeOK, Go, Leave, Places, Keys, Put, Remove
<1>7. ASSUME NEW q \in Completing, Publish(q)
      PROVE  TypeOK'
  <2>1. objects' \in [Keys -> Object \cup {None}]
    BY <1>7, PublicUpdated DEF TypeOK, Publish, Keys
  <2> QED BY <1>0, <1>7, <2>1 DEF Publish, TypeOK, Go, Leave, Places
<1>8. ASSUME NEW q \in Completing, Commit(q)
      PROVE  TypeOK'
  <2>1. row' \in Row \cup {None}
    BY <1>8 DEF TypeOK, Commit, Statuses, Row
  <2> QED BY <1>0, <1>8, <2>1 DEF Commit, TypeOK, Go, Leave, Places
<1>9. ASSUME NEW q \in Completing, Reopen(q)
      PROVE  TypeOK'
  <2>1. row' \in Row \cup {None}
    BY <1>9 DEF TypeOK, Reopen, Statuses, Row
  <2> QED BY <1>0, <1>9, <2>1 DEF Reopen, TypeOK, Go, Leave, Places
<1>10. ASSUME NEW q \in Completing, Unclaim(q)
       PROVE  TypeOK'
  <2>1. row' \in Row \cup {None}
    BY <1>10 DEF TypeOK, Unclaim, Statuses, Row
  <2> QED BY <1>0, <1>10, <2>1 DEF Unclaim, TypeOK, Go, Leave, Places
<1>11. ASSUME NEW q \in Completing, RejectKeys(q)
       PROVE  TypeOK'
  BY <1>11, <1>0 DEF RejectKeys, TypeOK, Go, Leave, Places, Keys, Put, Remove
<1>12. ASSUME NEW q \in Completing, RejectRow(q)
       PROVE  TypeOK'
  <2>1. row' \in Row \cup {None}
    BY <1>12 DEF TypeOK, RejectRow, Statuses, Row
  <2> QED BY <1>0, <1>12, <2>1 DEF RejectRow, TypeOK, Go, Leave, Places
<1>13. ASSUME NEW q \in Completing, CompleteFails(q)
       PROVE  TypeOK'
  BY <1>13, <1>0 DEF CompleteFails, TypeOK, Go, Leave, Places, Keys, Put, Remove
<1>14. ASSUME NEW q \in Changing, AskChange(q)
       PROVE  TypeOK'
  <2>1. my' \in [Actors -> Locals]
    BY <1>14 DEF TypeOK, AskChange, Locals, Operations
  <2> QED BY <1>0, <1>14, <2>1 DEF AskChange, TypeOK, Go, Leave, Places
<1>15. ASSUME NEW q \in Changing, GiveUpChange(q)
       PROVE  TypeOK'
  <2>1. late' \subseteq (Keys \X BOOLEAN)
    BY <1>15, LocalFields DEF TypeOK, GiveUpChange
  <2> QED BY <1>0, <1>15, <2>1 DEF GiveUpChange, TypeOK, Go, Leave, Places
<1>16. ASSUME NEW q \in Changing, AskHardDelete(q)
       PROVE  TypeOK'
  <2>1. my' \in [Actors -> Locals]
    BY <1>16 DEF TypeOK, AskHardDelete, Locals, Keys, StorageKeys
  <2> QED BY <1>0, <1>16, <2>1 DEF AskHardDelete, TypeOK, Go, Leave, Places
<1>17. ASSUME NEW a \in Requests \cup {Worker}, LockRow(a)
       PROVE  TypeOK'
  <2>1. AclFor(my[a].op) \in BOOLEAN
    BY <1>17, RowFields DEF AclFor, TypeOK, LockRow
  <2>2. my' \in [Actors -> Locals]
    <3>1. \/ my' = [my EXCEPT ![a] = Blank]
          \/ my' = my
          \/ my' = [my EXCEPT ![a].keys = StorageKeys(row), ![a].acl = AclFor(my[a].op)]
      BY <1>17 DEF LockRow, Leave
    <3>2. StorageKeys(row) \subseteq Keys
      BY DEF StorageKeys, Keys
    <3> QED BY <1>0, <1>17, <2>1, <3>1, <3>2 DEF TypeOK, Locals
  <2>3. at' \in [Actors -> Places]
    BY <1>17 DEF TypeOK, LockRow, Leave, Go, Places
  <2>4. torn' \in BOOLEAN
    BY <1>17 DEF TypeOK, LockRow, Leave
  <2>5. shown' \subseteq {"raw", "crossed"}
    BY <1>17 DEF TypeOK, LockRow, Crossed
  <2> QED BY <1>17, <2>2, <2>3, <2>4, <2>5 DEF TypeOK, LockRow
<1>18. ASSUME NEW a \in Requests \cup {Worker}, LockNothing(a)
       PROVE  TypeOK'
  <2>1. my' \in [Actors -> Locals]
    BY <1>18, <1>0 DEF TypeOK, LockNothing, Locals, Keys, Leave
  <2> QED BY <1>0, <1>18, <2>1 DEF LockNothing, TypeOK, Go, Leave, Places
<1>19. ASSUME NEW a \in Requests \cup {Worker}, SetAcl(a)
       PROVE  TypeOK'
  <2>1. objects' \in [Keys -> Object \cup {None}]
    BY <1>19, LocalFields, PublicUpdated DEF TypeOK, SetAcl
  <2>2. my' \in [Actors -> Locals]
    BY <1>19 DEF TypeOK, SetAcl, Locals
  <2> QED BY <1>0, <1>19, <2>1, <2>2 DEF SetAcl, TypeOK, Go, Leave, Places
<1>20. ASSUME NEW a \in Requests \cup {Worker}, Save(a)
       PROVE  TypeOK'
  <2>1. row' \in Row \cup {None}
    <3>1. row # None
      BY <1>20, ActorFacts DEF Save, Located
    <3> QED BY <1>20, <3>1, SavedFacts DEF Save
  <2> QED BY <1>0, <1>20, <2>1 DEF Save, TypeOK, Go, Leave, Places
<1>21. ASSUME NEW a \in Requests \cup {Worker}, PurgeKey(a)
       PROVE  TypeOK'
  <2>1. objects' \in [Keys -> Object \cup {None}]
    BY <1>21, LocalFields DEF TypeOK, PurgeKey, Remove
  <2>2. my' \in [Actors -> Locals]
    BY <1>21 DEF TypeOK, PurgeKey, Locals
  <2> QED BY <1>0, <1>21, <2>1, <2>2 DEF PurgeKey, TypeOK, Go, Leave, Places
<1>22. ASSUME NEW a \in Requests \cup {Worker}, PurgeRow(a)
       PROVE  TypeOK'
  BY <1>22, <1>0 DEF PurgeRow, TypeOK, Go, Leave, Places, Keys, Put, Remove
<1>23. ASSUME NEW a \in Requests \cup {Sweep}, Die(a)
       PROVE  TypeOK'
  BY <1>23, <1>0 DEF Die, TypeOK, Go, Leave, Places, Keys, Put, Remove
<1>24. ASSUME StartJob
       PROVE  TypeOK'
  <2>1. my' \in [Actors -> Locals]
    <3>1. objects["file"] # None => Prepare(objects["file"].content) \in Stored
      <4>1. objects["file"] # None => objects["file"] \in Object
        BY DEF TypeOK, Keys
      <4> QED BY <4>1, ObjectFields, Stripping, StoredFacts
    <3> QED BY <1>24, <3>1 DEF TypeOK, StartJob, Locals
  <2>2. job' \in 0..2
    BY <1>24 DEF TypeOK, StartJob
  <2>3. shown' \subseteq {"raw", "crossed"}
    BY <1>24 DEF TypeOK, StartJob, Crossed
  <2> QED BY <1>0, <1>24, <2>1, <2>2, <2>3 DEF StartJob, TypeOK, Go, Leave, Places
<1>25. ASSUME Replace
       PROVE  TypeOK'
  <2>1. objects' \in [Keys -> Object \cup {None}]
    BY <1>25, PutTyped DEF Located, TypeOK, Replace, Put, Keys
  <2> QED BY <1>0, <1>25, <2>1 DEF Replace, TypeOK, Go, Leave, Places
<1>26. ASSUME Derive
       PROVE  TypeOK'
  <2>1. objects' \in [Keys -> Object \cup {None}]
    <3>1. Thumbnail(my[Worker].content) \in Stored
      BY <1>26, Stripping, StoredFacts DEF Located, Derive
    <3> QED BY <1>26, <3>1, PutTyped DEF TypeOK, Derive, Put, Keys
  <2> QED BY <1>0, <1>26, <2>1 DEF Derive, TypeOK, Go, Leave, Places
<1>27. ASSUME Finish
       PROVE  TypeOK'
  <2>1. row' \in Row \cup {None}
    BY <1>27 DEF TypeOK, Finish, Statuses, Row
  <2>2. my' \in [Actors -> Locals]
    BY <1>27 DEF TypeOK, Finish, Locals, Keys, Operations
  <2> QED BY <1>0, <1>27, <2>1, <2>2 DEF Finish, TypeOK, Go, Leave, Places
<1>28. ASSUME JobFails
       PROVE  TypeOK'
  <2>1. late' \subseteq (Keys \X BOOLEAN)
    BY <1>28, LocalFields DEF TypeOK, JobFails
  <2> QED BY <1>0, <1>28, <2>1 DEF JobFails, TypeOK, Go, Leave, Places
<1>29. ASSUME MarkFailed
       PROVE  TypeOK'
  <2>1. row' \in Row \cup {None}
    BY <1>29 DEF TypeOK, MarkFailed, Statuses, Row
  <2> QED BY <1>0, <1>29, <2>1 DEF MarkFailed, TypeOK, Go, Leave, Places
<1>30. ASSUME WorkerDies
       PROVE  TypeOK'
  BY <1>30, <1>0 DEF WorkerDies, TypeOK, Go, Leave, Places, Keys, Put, Remove
<1>31. ASSUME FindAbandoned
       PROVE  TypeOK'
  BY <1>31, <1>0 DEF FindAbandoned, TypeOK, Go, Leave, Places, Keys, Put, Remove
<1>32. ASSUME RemoveAbandoned
       PROVE  TypeOK'
  BY <1>32, <1>0 DEF RemoveAbandoned, TypeOK, Go, Leave, Places, Keys, Put, Remove
<1>33. ASSUME RemoveObjects
       PROVE  TypeOK'
  BY <1>33, <1>0 DEF RemoveObjects, TypeOK, Go, Leave, Places, Keys, Put, Remove
<1>34. ASSUME Initiate
       PROVE  TypeOK'
  <2>1. row' \in Row \cup {None}
    BY <1>34 DEF TypeOK, Initiate, Row, New, Statuses
  <2> QED BY <1>0, <1>34, <2>1 DEF Initiate, TypeOK, Go, Leave, Places
<1>35. ASSUME UploadAttachment
       PROVE  TypeOK'
  <2>1. PICK file \in Files, content \in Contents, isPublic \in BOOLEAN :
          LET image == file.mimetype \in Images
              stored == IF image THEN Prepare(content) ELSE content
          IN  /\ objects' = [objects EXCEPT
                   !["file"] = [content |-> stored, public |-> isPublic],
                   !["thumbnail"] = IF image
                                    THEN [content |-> Thumbnail(stored), public |-> isPublic]
                                    ELSE None]
              /\ row' = New(file, "completed", isPublic, image)
    BY <1>35 DEF UploadAttachment
  <2> DEFINE image == file.mimetype \in Images
             stored == IF image THEN Prepare(content) ELSE content
  <2>2. stored \in Stored
    BY Stripping, StoredFacts DEF Stored
  <2>3. Thumbnail(stored) \in Stored
    BY <2>2, Stripping, StoredFacts
  <2>4. objects' \in [Keys -> Object \cup {None}]
    <3>1. /\ [content |-> stored, public |-> isPublic] \in Object
          /\ [content |-> Thumbnail(stored), public |-> isPublic] \in Object
      BY <2>2, <2>3 DEF Object
    <3> HIDE DEF stored, image
    <3>2. objects' = [objects EXCEPT
                        !["file"] = [content |-> stored, public |-> isPublic],
                        !["thumbnail"] = IF image
                          THEN [content |-> Thumbnail(stored), public |-> isPublic]
                          ELSE None]
      BY <2>1 DEF stored, image
    <3> QED BY <3>1, <3>2 DEF TypeOK, Keys
  <2>5. row' \in Row
    BY <2>1 DEF Row, New, Statuses
  <2> QED BY <1>35, <2>4, <2>5 DEF TypeOK, UploadAttachment
<1>36. ASSUME UploadAttachmentAsync
       PROVE  TypeOK'
  <2>1. PICK file \in Files, content \in Contents, isPublic \in BOOLEAN :
          LET image == file.mimetype \in Images
          IN  /\ Put("file", content, isPublic /\ ~image)
              /\ row' = New(file, IF image THEN "processing" ELSE "completed", isPublic, FALSE)
              /\ job' = IF image THEN 2 ELSE 0
    BY <1>36 DEF UploadAttachmentAsync
  <2>2. content \in Stored /\ (isPublic /\ file.mimetype \notin Images) \in BOOLEAN
    BY DEF Stored
  <2>3. objects' \in [Keys -> Object \cup {None}]
    BY <2>1, <2>2, PutTyped DEF TypeOK, Keys, Put
  <2>4. row' \in Row
    BY <2>1 DEF Row, New, Statuses
  <2>5. job' \in 0..2
    BY <2>1
  <2>6. torn' = FALSE /\ shown' = {} /\ UNCHANGED <<lock, stale, late, at, my>>
    BY <1>36 DEF UploadAttachmentAsync
  <2> QED BY <2>3, <2>4, <2>5, <2>6 DEF TypeOK
<1>37. ASSUME Post
       PROVE  TypeOK'
  <2>1. objects' \in [Keys -> Object \cup {None}]
    <3>1. PICK content \in Contents : Put("incoming", content, FALSE)
      BY <1>37 DEF Post
    <3>2. content \in Stored
      BY DEF Stored
    <3> QED BY <3>1, <3>2, PutTyped DEF TypeOK, Put, Keys
  <2> QED BY <1>0, <1>37, <2>1 DEF Post, TypeOK, Go, Leave, Places
<1>38. ASSUME Age
       PROVE  TypeOK'
  BY <1>38, <1>0 DEF Age, TypeOK, Go, Leave, Places, Keys, Put, Remove
<1>39. ASSUME ServeLate
       PROVE  TypeOK'
  <2>1. PICK call \in late :
          /\ late' = late \ {call}
          /\ objects' = IF objects[call[1]] = None THEN objects
                        ELSE [objects EXCEPT ![call[1]].public = call[2]]
          /\ UNCHANGED <<row, lock, job, stale, torn, shown, at, my>>
    BY <1>39 DEF ServeLate
  <2>2. call[1] \in Keys /\ call[2] \in BOOLEAN
    BY <2>1 DEF TypeOK
  <2>3. objects' \in [Keys -> Object \cup {None}]
    BY <2>1, <2>2, PublicUpdated DEF TypeOK
  <2> QED BY <2>1, <2>3 DEF TypeOK
<1>40. ASSUME UNCHANGED vars
      PROVE  TypeOK'
  BY <1>40 DEF vars, TypeOK
<1>41. ASSUME NEW q \in Showing, AskMainImage(q)
       PROVE  TypeOK'
  <2>1. my' \in [Actors -> Locals]
    BY <1>41 DEF TypeOK, AskMainImage, Locals, Keys, StorageKeys
  <2>2. shown' \subseteq {"raw", "crossed"}
    BY <1>41 DEF TypeOK, AskMainImage, Crossed
  <2> QED BY <1>0, <1>41, <2>1, <2>2 DEF AskMainImage, TypeOK, Go, Places
<1>42. ASSUME NEW q \in Showing, ShowImage(q)
       PROVE  TypeOK'
  <2>1. NextShown(q) \in Keys
    BY DEF NextShown, Keys
  <2>2. objects' \in [Keys -> Object \cup {None}]
    BY <1>42, <2>1, PublicUpdated DEF TypeOK, ShowImage
  <2>3. my' \in [Actors -> Locals]
    BY <1>42 DEF TypeOK, ShowImage, Locals
  <2> QED BY <1>0, <1>42, <2>2, <2>3 DEF ShowImage, TypeOK, Go, Places
<1>43. ASSUME NEW q \in Showing, FlagImage(q)
       PROVE  TypeOK'
  <2>1. row' \in Row \cup {None}
    BY <1>43 DEF TypeOK, FlagImage, Row
  <2> QED BY <1>0, <1>43, <2>1 DEF FlagImage, TypeOK, Leave, Places
<1>44. ASSUME NEW q \in Showing, GiveUpImage(q)
       PROVE  TypeOK'
  <2>1. my[q].keys \cap {NextShown(q)} \subseteq Keys
    BY LocalFields DEF TypeOK
  <2>2. late' \subseteq (Keys \X BOOLEAN)
    BY <1>44, <2>1, LateCalls DEF TypeOK, GiveUpImage
  <2> QED BY <1>0, <1>44, <2>2 DEF GiveUpImage, TypeOK, Leave, Places
<1> QED BY <1>1, <1>2, <1>3, <1>4, <1>5, <1>6, <1>7, <1>8, <1>9, <1>10, <1>11, <1>12, <1>13,
           <1>14, <1>15, <1>16, <1>17, <1>18, <1>19, <1>20, <1>21, <1>22, <1>23, <1>24, <1>25,
           <1>26, <1>27, <1>28, <1>29, <1>30, <1>31, <1>32, <1>33, <1>34, <1>35, <1>36, <1>37,
           <1>38, <1>39, <1>40, <1>41, <1>42, <1>43, <1>44
     DEF Next, CompleteStep, OwnerStep, ImageStep, LockedStep, PurgeStep, WorkerStep, SweepStep

-----------------------------------------------------------------------------
(* Where everybody is. *)

LEMMA LocatedInit == Init => Located
BY ActorFacts DEF Init, Located, Operation, WorkerPlaces, SweepPlaces, Blank

LEMMA LocatedStep == TypeOK /\ Located /\ [Next]_vars => Located'
<1> SUFFICES ASSUME TypeOK, Located, [Next]_vars
             PROVE  Located'
  OBVIOUS
<1> USE ActorFacts
<1>0. /\ TypeOK'
      /\ Blank.keys = {} /\ Blank.content = None
  BY TypeStep DEF Blank
<1>1. ASSUME NEW q \in Completing, AskComplete(q)
      PROVE  Located'
  BY <1>1, <1>0
  DEF AskComplete, Located, TypeOK, Go, Leave, Operation, WorkerPlaces, SweepPlaces, Unlocked
<1>2. ASSUME NEW q \in Completing, Claim(q)
      PROVE  Located'
  BY <1>2, <1>0
  DEF Claim, Located, TypeOK, Go, Leave, Operation, WorkerPlaces, SweepPlaces, Unlocked
<1>3. ASSUME NEW q \in Completing, HeadObject(q)
      PROVE  Located'
  <2>1. /\ my'[q].op = my[q].op /\ my'[q].keys = my[q].keys
        /\ \A b \in Actors : b # q => my'[b] = my[b]
    BY <1>3 DEF HeadObject, TypeOK, Locals
  <2>2. /\ at[q] = "head" /\ at' = [at EXCEPT ![q] = at'[q]] /\ at'[q] \in {"sniff", "unclaim"}
        /\ UNCHANGED <<row, objects, lock, job, stale, late, torn>>
    BY <1>3 DEF HeadObject, TypeOK, Go
  <2> QED BY <2>1, <2>2, <1>0 DEF Located, TypeOK, Operation, WorkerPlaces, SweepPlaces
<1>4. ASSUME NEW q \in Completing, SniffContent(q)
      PROVE  Located'
  BY <1>4, <1>0
  DEF SniffContent, Located, TypeOK, Go, Leave, Operation, WorkerPlaces, SweepPlaces, Unlocked
<1>5. ASSUME NEW q \in Completing, CopyIfUnchanged(q)
      PROVE  Located'
  BY <1>5, <1>0
  DEF CopyIfUnchanged, Located, TypeOK, Go, Leave, Operation, WorkerPlaces, SweepPlaces, Unlocked
<1>6. ASSUME NEW q \in Completing, DropUpload(q)
      PROVE  Located'
  BY <1>6, <1>0
  DEF DropUpload, Located, TypeOK, Go, Leave, Operation, WorkerPlaces, SweepPlaces, Unlocked
<1>7. ASSUME NEW q \in Completing, Publish(q)
      PROVE  Located'
  BY <1>7, <1>0
  DEF Publish, Located, TypeOK, Go, Leave, Operation, WorkerPlaces, SweepPlaces, Unlocked
<1>8. ASSUME NEW q \in Completing, Commit(q)
      PROVE  Located'
  BY <1>8, <1>0
  DEF Commit, Located, TypeOK, Go, Leave, Operation, WorkerPlaces, SweepPlaces, Unlocked
<1>9. ASSUME NEW q \in Completing, Reopen(q)
      PROVE  Located'
  BY <1>9, <1>0
  DEF Reopen, Located, TypeOK, Go, Leave, Operation, WorkerPlaces, SweepPlaces, Unlocked
<1>10. ASSUME NEW q \in Completing, Unclaim(q)
       PROVE  Located'
  BY <1>10, <1>0
  DEF Unclaim, Located, TypeOK, Go, Leave, Operation, WorkerPlaces, SweepPlaces, Unlocked
<1>11. ASSUME NEW q \in Completing, RejectKeys(q)
       PROVE  Located'
  BY <1>11, <1>0
  DEF RejectKeys, Located, TypeOK, Go, Leave, Operation, WorkerPlaces, SweepPlaces, Unlocked
<1>12. ASSUME NEW q \in Completing, RejectRow(q)
       PROVE  Located'
  BY <1>12, <1>0
  DEF RejectRow, Located, TypeOK, Go, Leave, Operation, WorkerPlaces, SweepPlaces, Unlocked
<1>13. ASSUME NEW q \in Completing, CompleteFails(q)
       PROVE  Located'
  BY <1>13, <1>0
  DEF CompleteFails, Located, TypeOK, Go, Leave, Operation, WorkerPlaces, SweepPlaces, Unlocked
<1>14. ASSUME NEW q \in Changing, AskChange(q)
       PROVE  Located'
  BY <1>14, <1>0
  DEF AskChange, Located, TypeOK, Go, Leave, Operation, WorkerPlaces, SweepPlaces, Unlocked
<1>15. ASSUME NEW q \in Changing, GiveUpChange(q)
       PROVE  Located'
  BY <1>15, <1>0
  DEF GiveUpChange, Located, TypeOK, Go, Leave, Operation, WorkerPlaces, SweepPlaces, Unlocked
<1>16. ASSUME NEW q \in Changing, AskHardDelete(q)
       PROVE  Located'
  BY <1>16, <1>0
  DEF AskHardDelete, Located, TypeOK, Go, Leave, Operation, WorkerPlaces, SweepPlaces, Unlocked,
      StorageKeys
<1>17. ASSUME NEW a \in Requests \cup {Worker}, LockRow(a)
       PROVE  Located'
  <2>1. /\ at[a] = "lock" /\ Unlocked /\ row # None
        /\ UNCHANGED <<row, objects, job, stale, late>>
    BY <1>17 DEF LockRow
  <2>2. CASE Leave(a) /\ UNCHANGED lock
    BY <1>17, <2>1, <2>2, <1>0
    DEF Located, TypeOK, Leave, Operation, WorkerPlaces, SweepPlaces, Unlocked
  <2>3. CASE lock' = a /\ Go(a, "save") /\ UNCHANGED my
    BY <1>17, <2>1, <2>3, <1>0
    DEF Located, TypeOK, Go, Operation, WorkerPlaces, SweepPlaces, Unlocked
  <2>4. CASE /\ lock' = a
             /\ my' = [my EXCEPT ![a].keys = StorageKeys(row), ![a].acl = AclFor(my[a].op)]
             /\ Go(a, "acl")
    <3>1. /\ my'[a].op = my[a].op /\ my'[a].keys = StorageKeys(row)
          /\ \A b \in Actors : b # a => my'[b] = my[b]
      BY <1>17, <2>4 DEF TypeOK, Locals
    <3>2. StorageKeys(row) \subseteq {"file", "thumbnail"}
      BY DEF StorageKeys
    <3> QED BY <1>17, <2>1, <2>4, <3>1, <3>2, <1>0
        DEF Located, TypeOK, Go, Operation, WorkerPlaces, SweepPlaces, Unlocked
  <2> QED BY <1>17, <2>2, <2>3, <2>4 DEF LockRow
<1>18. ASSUME NEW a \in Requests \cup {Worker}, LockNothing(a)
       PROVE  Located'
  <2>1. /\ at[a] = "lock" /\ row = None
        /\ UNCHANGED <<row, objects, lock, stale, late, torn>>
    BY <1>18 DEF LockNothing
  <2>2. CASE a = Worker
    <3>1. /\ my'[a].op = my[a].op /\ my'[a].keys = {"file", "thumbnail"}
          /\ \A b \in Actors : b # a => my'[b] = my[b]
      BY <1>18, <2>2 DEF LockNothing, TypeOK, Locals
    <3>2. Go(a, "purge")
      BY <1>18, <2>2 DEF LockNothing
    <3> QED BY <1>0, <2>1, <2>2, <3>1, <3>2
        DEF Located, TypeOK, Go, Operation, WorkerPlaces, SweepPlaces
  <2>3. CASE a # Worker
    <3>1. Leave(a)
      BY <1>18, <2>3 DEF LockNothing
    <3> QED BY <1>0, <1>18, <2>1, <2>3, <3>1
        DEF Located, TypeOK, Leave, Operation, WorkerPlaces, SweepPlaces
  <2> QED BY <2>2, <2>3
<1>19. ASSUME NEW a \in Requests \cup {Worker}, SetAcl(a)
       PROVE  Located'
  BY <1>19, <1>0
  DEF SetAcl, Located, TypeOK, Go, Leave, Operation, WorkerPlaces, SweepPlaces, Unlocked
<1>20. ASSUME NEW a \in Requests \cup {Worker}, Save(a)
       PROVE  Located'
  BY <1>20, <1>0, SavedFacts
  DEF Save, Located, TypeOK, Go, Leave, Operation, WorkerPlaces, SweepPlaces, Unlocked
<1>21. ASSUME NEW a \in Requests \cup {Worker}, PurgeKey(a)
       PROVE  Located'
  BY <1>21, <1>0
  DEF PurgeKey, Located, TypeOK, Go, Leave, Operation, WorkerPlaces, SweepPlaces, Unlocked
<1>22. ASSUME NEW a \in Requests \cup {Worker}, PurgeRow(a)
       PROVE  Located'
  BY <1>22, <1>0
  DEF PurgeRow, Located, TypeOK, Go, Leave, Operation, WorkerPlaces, SweepPlaces, Unlocked
<1>23. ASSUME NEW a \in Requests \cup {Sweep}, Die(a)
       PROVE  Located'
  BY <1>23, <1>0
  DEF Die, Located, TypeOK, Go, Leave, Operation, WorkerPlaces, SweepPlaces, Unlocked
<1>24. ASSUME StartJob
       PROVE  Located'
  <2>1. at[Worker] = "idle" /\ UNCHANGED <<row, objects, lock, stale, late, torn>>
    BY <1>24 DEF StartJob
  <2>2. CASE UNCHANGED <<at, my>>
    BY <2>1, <2>2 DEF Located
  <2>3. CASE /\ objects["file"] # None
             /\ my' = [my EXCEPT ![Worker].content = Prepare(objects["file"].content)]
             /\ Go(Worker, "replace")
    <3>1. /\ my'[Worker].op = my[Worker].op /\ my'[Worker].keys = my[Worker].keys
          /\ my'[Worker].content = Prepare(objects["file"].content)
          /\ \A b \in Actors : b # Worker => my'[b] = my[b]
      BY <2>3 DEF TypeOK, Locals
    <3>2. Prepare(objects["file"].content) \in Stored
      <4>1. objects["file"] \in Object
        BY <2>3 DEF TypeOK, Keys
      <4> QED BY <4>1, ObjectFields, Stripping, StoredFacts
    <3> QED BY <1>0, <2>1, <2>3, <3>1, <3>2
        DEF Located, TypeOK, Go, Operation, WorkerPlaces, SweepPlaces
  <2>4. CASE Go(Worker, "markFailed") /\ UNCHANGED my
    BY <1>0, <2>1, <2>4 DEF Located, TypeOK, Go, Operation, WorkerPlaces, SweepPlaces
  <2> QED BY <1>24, <2>2, <2>3, <2>4 DEF StartJob
<1>25. ASSUME Replace
       PROVE  Located'
  BY <1>25, <1>0
  DEF Replace, Located, TypeOK, Go, Leave, Operation, WorkerPlaces, SweepPlaces, Unlocked
<1>26. ASSUME Derive
       PROVE  Located'
  BY <1>26, <1>0
  DEF Derive, Located, TypeOK, Go, Leave, Operation, WorkerPlaces, SweepPlaces, Unlocked
<1>27. ASSUME Finish
       PROVE  Located'
  <2>1. at[Worker] = "finish" /\ Unlocked /\ UNCHANGED <<objects, lock, job, stale, late, torn>>
    BY <1>27 DEF Finish
  <2>2. CASE row = None
    <3>1. /\ my'[Worker].op = my[Worker].op /\ my'[Worker].keys = {"file", "thumbnail"}
          /\ \A b \in Actors : b # Worker => my'[b] = my[b]
      BY <1>27, <2>2 DEF Finish, TypeOK, Locals
    <3>2. Go(Worker, "purge") /\ UNCHANGED row
      BY <1>27, <2>2 DEF Finish
    <3> QED BY <1>0, <2>1, <3>1, <3>2
        DEF Located, TypeOK, Go, Operation, WorkerPlaces, SweepPlaces, Unlocked
  <2>3. CASE row # None
    <3>1. /\ my'[Worker].op = "apply" /\ my'[Worker].keys = my[Worker].keys
          /\ \A b \in Actors : b # Worker => my'[b] = my[b]
      BY <1>27, <2>3 DEF Finish, TypeOK, Locals
    <3>2. Go(Worker, "lock")
      BY <1>27, <2>3 DEF Finish
    <3> QED BY <1>0, <2>1, <3>1, <3>2
        DEF Located, TypeOK, Go, Operation, WorkerPlaces, SweepPlaces, Unlocked
  <2> QED BY <2>2, <2>3
<1>28. ASSUME JobFails
       PROVE  Located'
  BY <1>28, <1>0
  DEF JobFails, Located, TypeOK, Go, Leave, Operation, WorkerPlaces, SweepPlaces, Unlocked
<1>29. ASSUME MarkFailed
       PROVE  Located'
  BY <1>29, <1>0
  DEF MarkFailed, Located, TypeOK, Go, Leave, Operation, WorkerPlaces, SweepPlaces, Unlocked
<1>30. ASSUME WorkerDies
       PROVE  Located'
  BY <1>30, <1>0
  DEF WorkerDies, Located, TypeOK, Go, Leave, Operation, WorkerPlaces, SweepPlaces, Unlocked
<1>31. ASSUME FindAbandoned
       PROVE  Located'
  BY <1>31, <1>0
  DEF FindAbandoned, Located, TypeOK, Go, Leave, Operation, WorkerPlaces, SweepPlaces, Unlocked
<1>32. ASSUME RemoveAbandoned
       PROVE  Located'
  BY <1>32, <1>0
  DEF RemoveAbandoned, Located, TypeOK, Go, Leave, Operation, WorkerPlaces, SweepPlaces, Unlocked
<1>33. ASSUME RemoveObjects
       PROVE  Located'
  BY <1>33, <1>0
  DEF RemoveObjects, Located, TypeOK, Go, Leave, Operation, WorkerPlaces, SweepPlaces, Unlocked
<1>34. ASSUME Initiate
       PROVE  Located'
  BY <1>34, <1>0
  DEF Initiate, Located, TypeOK, Go, Leave, Operation, WorkerPlaces, SweepPlaces, Unlocked,
      Fresh, New
<1>35. ASSUME UploadAttachment
       PROVE  Located'
  BY <1>35, <1>0
  DEF UploadAttachment, Located, TypeOK, Go, Leave, Operation, WorkerPlaces, SweepPlaces,
      Unlocked, Fresh, New
<1>36. ASSUME UploadAttachmentAsync
       PROVE  Located'
  BY <1>36, <1>0
  DEF UploadAttachmentAsync, Located, TypeOK, Go, Leave, Operation, WorkerPlaces, SweepPlaces,
      Unlocked, Fresh, New
<1>37. ASSUME Post
       PROVE  Located'
  BY <1>37 DEF Post, Located
<1>38. ASSUME Age
       PROVE  Located'
  BY <1>38 DEF Age, Located
<1>39. ASSUME ServeLate
       PROVE  Located'
  BY <1>39, <1>0
  DEF ServeLate, Located, TypeOK, Go, Leave, Operation, WorkerPlaces, SweepPlaces, Unlocked
<1>40. ASSUME UNCHANGED vars
      PROVE  Located'
  BY <1>40 DEF vars, Located
<1>41. ASSUME NEW q \in Showing, AskMainImage(q)
       PROVE  Located'
  BY <1>41, <1>0
  DEF AskMainImage, Located, TypeOK, Go, Operation, WorkerPlaces, SweepPlaces, Unlocked,
      StorageKeys
<1>42. ASSUME NEW q \in Showing, ShowImage(q)
       PROVE  Located'
  <2>1. /\ at[q] = "show" /\ at' = [at EXCEPT ![q] = at'[q]] /\ at'[q] \in {"show", "flag"}
        /\ UNCHANGED <<row, lock, job, stale, late, torn>>
    BY <1>42 DEF ShowImage, TypeOK, Go
  <2>2. /\ my'[q].op = my[q].op /\ my'[q].keys = my[q].keys \ {NextShown(q)}
        /\ \A b \in Actors : b # q => my'[b] = my[b]
    BY <1>42 DEF ShowImage, TypeOK, Locals
  <2>3. at'[q] = "flag" => my[q].keys = {NextShown(q)}
    BY <1>42 DEF ShowImage, TypeOK, Go
  <2> QED BY <2>1, <2>2, <2>3, <1>0 DEF Located, TypeOK, Operation, WorkerPlaces, SweepPlaces
<1>43. ASSUME NEW q \in Showing, FlagImage(q)
       PROVE  Located'
  BY <1>43, <1>0
  DEF FlagImage, Located, TypeOK, Leave, Operation, WorkerPlaces, SweepPlaces, Unlocked
<1>44. ASSUME NEW q \in Showing, GiveUpImage(q)
       PROVE  Located'
  <2>1. at[q] \in {"show", "flag"} /\ Leave(q) /\ UNCHANGED <<row, lock>>
    BY <1>44 DEF GiveUpImage
  <2>2. late' \subseteq ({"file", "thumbnail"} \X BOOLEAN)
    <3>1. my[q].keys \cap {NextShown(q)} \subseteq {"file", "thumbnail"}
      BY DEF Located
    <3> QED BY <1>44, <3>1, LateCalls DEF GiveUpImage, Located
  <2> QED BY <1>0, <2>1, <2>2
      DEF Located, TypeOK, Leave, Operation, WorkerPlaces, SweepPlaces
<1> QED BY <1>1, <1>2, <1>3, <1>4, <1>5, <1>6, <1>7, <1>8, <1>9, <1>10, <1>11, <1>12, <1>13,
           <1>14, <1>15, <1>16, <1>17, <1>18, <1>19, <1>20, <1>21, <1>22, <1>23, <1>24, <1>25,
           <1>26, <1>27, <1>28, <1>29, <1>30, <1>31, <1>32, <1>33, <1>34, <1>35, <1>36, <1>37,
           <1>38, <1>39, <1>40, <1>41, <1>42, <1>43, <1>44
     DEF Next, CompleteStep, OwnerStep, ImageStep, LockedStep, PurgeStep, WorkerStep, SweepStep

-----------------------------------------------------------------------------
(* Until the upload is checked. *)

LEMMA StatusUpdated ==
  ASSUME NEW r \in Row, NEW status \in Statuses
  PROVE  LET new == [r EXCEPT !.securityStatus = status]
         IN  /\ new # None /\ new.securityStatus = status
             /\ new.declared = r.declared /\ new.isPublic = r.isPublic
             /\ new.deleted = r.deleted /\ new.derived = r.derived
<1>1. [r EXCEPT !.securityStatus = status] \in Row
  BY DEF Row
<1>2. [r EXCEPT !.securityStatus = status] # None
  BY <1>1, RowFields
<1> QED BY <1>2 DEF Row

LEMMA EarlyInit == Init => Early
BY ActorFacts DEF Init, Early, Waiting, InFlight, Shows

LEMMA EarlyStep == TypeOK /\ Located /\ Early /\ [Next]_vars => Early'
<1> SUFFICES ASSUME TypeOK, Located, Early, [Next]_vars
             PROVE  Early'
  OBVIOUS
<1> USE ActorFacts
<1>0. /\ TypeOK' /\ Located'
      /\ Blank.keys = {} /\ Blank.acl = FALSE
      /\ {"pending_upload", "verifying", "processing", "completed", "failed", "rejected"}
           \subseteq Statuses
  BY TypeStep, LocatedStep DEF Blank, Statuses
<1>1. ASSUME NEW q \in Completing, AskComplete(q)
      PROVE  Early'
  BY <1>1, <1>0
  DEF AskComplete, Early, Located, TypeOK, Waiting, InFlight, Shows, Unchecked, Go, Leave, Unlocked
<1>2. ASSUME NEW q \in Completing, Claim(q)
      PROVE  Early'
  <2>1. UNCHANGED <<objects, lock, job, stale, late, torn>> /\ at[q] = "claim" /\ Unlocked
    BY <1>2 DEF Claim
  <2>2. CASE row # None /\ row.securityStatus = "pending_upload"
    <3>1. Waiting /\ \A r \in Requests : ~InFlight(r)
      BY <2>2 DEF Waiting, Unchecked, Early
    <3>2. row' # None /\ row'.securityStatus = "verifying" /\ Go(q, "head") /\ UNCHANGED my
      <4>1. row' = [row EXCEPT !.securityStatus = "verifying"] /\ Go(q, "head") /\ UNCHANGED my
        BY <1>2, <2>2 DEF Claim
      <4>2. row \in Row
        BY <2>2 DEF TypeOK
      <4> QED BY <1>0, <4>1, <4>2, StatusUpdated
    <3> QED BY <1>0, <2>1, <3>1, <3>2 DEF Early, Located, TypeOK, Waiting, InFlight, Shows, Go
  <2>3. CASE ~(row # None /\ row.securityStatus = "pending_upload")
    <3>1. Leave(q) /\ UNCHANGED row
      BY <1>2, <2>3 DEF Claim
    <3> QED BY <1>0, <2>1, <3>1 DEF Early, Located, TypeOK, Waiting, InFlight, Shows, Leave
  <2> QED BY <2>2, <2>3
<1>3. ASSUME NEW q \in Completing, HeadObject(q)
      PROVE  Early'
  BY <1>3, <1>0
  DEF HeadObject, Early, Located, TypeOK, Waiting, InFlight, Shows, Unchecked, Go, Leave, Unlocked
<1>4. ASSUME NEW q \in Completing, SniffContent(q)
      PROVE  Early'
  BY <1>4, <1>0
  DEF SniffContent, Early, Located, TypeOK, Waiting, InFlight, Shows, Unchecked, Go, Leave, Unlocked
<1>5. ASSUME NEW q \in Completing, CopyIfUnchanged(q)
      PROVE  Early'
  BY <1>5, <1>0
  DEF CopyIfUnchanged, Early, Located, TypeOK, Waiting, InFlight, Shows, Unchecked, Go, Leave,
      Unlocked
<1>6. ASSUME NEW q \in Completing, DropUpload(q)
      PROVE  Early'
  BY <1>6, <1>0
  DEF DropUpload, Early, Located, TypeOK, Waiting, InFlight, Shows, Unchecked, Go, Leave, Unlocked
<1>7. ASSUME NEW q \in Completing, Publish(q)
      PROVE  Early'
  BY <1>7, <1>0
  DEF Publish, Early, Located, TypeOK, Waiting, InFlight, Shows, Unchecked, Go, Leave, Unlocked
<1>8. ASSUME NEW q \in Completing, Commit(q)
      PROVE  Early'
  BY <1>8, <1>0, StatusUpdated
  DEF Commit, Early, Located, TypeOK, Waiting, InFlight, Shows, Unchecked, Go, Leave, Unlocked
<1>9. ASSUME NEW q \in Completing, Reopen(q)
      PROVE  Early'
  BY <1>9, <1>0, StatusUpdated
  DEF Reopen, Early, Located, TypeOK, Waiting, InFlight, Shows, Unchecked, Go, Leave, Unlocked
<1>10. ASSUME NEW q \in Completing, Unclaim(q)
       PROVE  Early'
  BY <1>10, <1>0, StatusUpdated
  DEF Unclaim, Early, Located, TypeOK, Waiting, InFlight, Shows, Unchecked, Go, Leave, Unlocked
<1>11. ASSUME NEW q \in Completing, RejectKeys(q)
       PROVE  Early'
  BY <1>11, <1>0
  DEF RejectKeys, Early, Located, TypeOK, Waiting, InFlight, Shows, Unchecked, Go, Leave, Unlocked
<1>12. ASSUME NEW q \in Completing, RejectRow(q)
       PROVE  Early'
  BY <1>12, <1>0, StatusUpdated
  DEF RejectRow, Early, Located, TypeOK, Waiting, InFlight, Shows, Unchecked, Go, Leave, Unlocked
<1>13. ASSUME NEW q \in Completing, CompleteFails(q)
       PROVE  Early'
  BY <1>13, <1>0
  DEF CompleteFails, Early, Located, TypeOK, Waiting, InFlight, Shows, Unchecked, Go, Leave,
      Unlocked
<1>14. ASSUME NEW q \in Changing, AskChange(q)
       PROVE  Early'
  BY <1>14, <1>0
  DEF AskChange, Early, Located, TypeOK, Waiting, InFlight, Shows, Unchecked, Go, Leave, Unlocked
<1>15. ASSUME NEW q \in Changing, GiveUpChange(q)
       PROVE  Early'
  BY <1>15, <1>0
  DEF GiveUpChange, Early, Located, TypeOK, Waiting, InFlight, Shows, Unchecked, Go, Leave, Unlocked
<1>16. ASSUME NEW q \in Changing, AskHardDelete(q)
       PROVE  Early'
  BY <1>16, <1>0
  DEF AskHardDelete, Early, Located, TypeOK, Waiting, InFlight, Shows, Unchecked, Go, Leave,
      Unlocked
<1>17. ASSUME NEW a \in Requests \cup {Worker}, LockRow(a)
       PROVE  Early'
  <2>1. /\ at[a] = "lock" /\ Unlocked /\ row # None
        /\ UNCHANGED <<row, objects, job, stale, late>>
    BY <1>17 DEF LockRow
  <2>2. CASE Leave(a) /\ UNCHANGED <<lock, torn>>
    BY <1>0, <1>17, <2>1, <2>2 DEF Early, Located, TypeOK, Waiting, InFlight, Shows, Leave
  <2>3. CASE lock' = a /\ Go(a, "save") /\ UNCHANGED <<my, torn>>
    BY <1>0, <1>17, <2>1, <2>3 DEF Early, Located, TypeOK, Waiting, InFlight, Shows, Go
  <2>4. CASE /\ ~(my[a].op = "public" /\ row.securityStatus \in UNPROCESSED)
             /\ torn' = (torn /\ (late # {} \/ \E key \in StorageKeys(row) :
                                                objects[key] = None))
             /\ my' = [my EXCEPT ![a].keys = StorageKeys(row), ![a].acl = AclFor(my[a].op)]
             /\ Go(a, "acl")
    <3>1. /\ my'[a].acl = AclFor(my[a].op)
          /\ \A b \in Actors : b # a => my'[b] = my[b]
      BY <1>17, <2>4 DEF TypeOK, Locals
    <3>2. Waiting' = Waiting /\ Shows' = Shows
      BY <1>0, <1>17, <2>1, <2>4 DEF TypeOK, Waiting, InFlight, Shows, Go
    <3>3. Waiting => ~AclFor(my[a].op)
      <4>1. Waiting => row.securityStatus \in Unchecked
        BY <2>1 DEF Waiting, Early, Unchecked
      <4>2. Waiting => a # Worker
        BY <2>1 DEF Early
      <4>3. a # Worker => my[a].op \in {"public", "private", "delete", "restore"}
        BY <1>17, <2>1 DEF Located, Operation
      <4> QED BY <2>4, <4>1, <4>2, <4>3 DEF AclFor, UNPROCESSED, Unchecked
    <3>4. torn' \/ late = {}
      BY <2>1, <2>4 DEF Early
    <3> QED BY <1>0, <1>17, <2>1, <2>4, <3>1, <3>2, <3>3, <3>4
        DEF Early, Located, TypeOK, InFlight, Go
  <2> QED BY <1>17, <2>2, <2>3, <2>4 DEF LockRow
<1>18. ASSUME NEW a \in Requests \cup {Worker}, LockNothing(a)
       PROVE  Early'
  BY <1>18, <1>0
  DEF LockNothing, Early, Located, TypeOK, Waiting, InFlight, Shows, Unchecked, Go, Leave, Unlocked,
      WorkerPlaces
<1>19. ASSUME NEW a \in Requests \cup {Worker}, SetAcl(a)
       PROVE  Early'
  BY <1>19, <1>0
  DEF SetAcl, Early, Located, TypeOK, Waiting, InFlight, Shows, Unchecked, Go, Leave, Unlocked
<1>20. ASSUME NEW a \in Requests \cup {Worker}, Save(a)
       PROVE  Early'
  BY <1>20, <1>0, SavedFacts
  DEF Save, Early, Located, TypeOK, Waiting, InFlight, Shows, Unchecked, Go, Leave, Unlocked
<1>21. ASSUME NEW a \in Requests \cup {Worker}, PurgeKey(a)
       PROVE  Early'
  BY <1>21, <1>0
  DEF PurgeKey, Early, Located, TypeOK, Waiting, InFlight, Shows, Unchecked, Go, Leave, Unlocked
<1>22. ASSUME NEW a \in Requests \cup {Worker}, PurgeRow(a)
       PROVE  Early'
  BY <1>22, <1>0
  DEF PurgeRow, Early, Located, TypeOK, Waiting, InFlight, Shows, Unchecked, Go, Leave, Unlocked
<1>23. ASSUME NEW a \in Requests \cup {Sweep}, Die(a)
       PROVE  Early'
  BY <1>23, <1>0
  DEF Die, Early, Located, TypeOK, Waiting, InFlight, Shows, Unchecked, Go, Leave, Unlocked
<1>24. ASSUME StartJob
       PROVE  Early'
  BY <1>24, <1>0
  DEF StartJob, Early, Located, TypeOK, Waiting, InFlight, Shows, Unchecked, Go, Leave, Unlocked,
      WorkerPlaces
<1>25. ASSUME Replace
       PROVE  Early'
  BY <1>25, <1>0
  DEF Replace, Early, Located, TypeOK, Waiting, InFlight, Shows, Unchecked, Go, Leave, Unlocked
<1>26. ASSUME Derive
       PROVE  Early'
  BY <1>26, <1>0
  DEF Derive, Early, Located, TypeOK, Waiting, InFlight, Shows, Unchecked, Go, Leave, Unlocked
<1>27. ASSUME Finish
       PROVE  Early'
  <2>1. at[Worker] = "finish" /\ Unlocked /\ UNCHANGED <<objects, lock, job, stale, late, torn>>
    BY <1>27 DEF Finish
  <2>2. ~Waiting
    BY <2>1 DEF Early
  <2>3. row' # None => row'.securityStatus \notin Unchecked
    <3>1. row # None => row'.securityStatus = "completed"
      BY <1>27 DEF Finish, TypeOK, Row
    <3> QED BY <1>27, <3>1 DEF Finish, Unchecked
  <2>4. \A a \in Actors : a # Worker => at'[a] = at[a]
    BY <1>27 DEF Finish, Go, TypeOK
  <2>5. ~Waiting' /\ \A q \in Requests : ~InFlight(q)'
    BY <2>2, <2>3, <2>4 DEF Waiting, InFlight, Shows
  <2>6. at'[Worker] = (IF row = None THEN "purge" ELSE "lock") /\ (row = None => row' = None)
    BY <1>27 DEF Finish, Go, TypeOK
  <2> QED BY <2>1, <2>4, <2>5, <2>6 DEF Early
<1>28. ASSUME JobFails
       PROVE  Early'
  BY <1>28, <1>0
  DEF JobFails, Early, Located, TypeOK, Waiting, InFlight, Shows, Unchecked, Go, Leave, Unlocked
<1>29. ASSUME MarkFailed
       PROVE  Early'
  BY <1>29, <1>0, StatusUpdated
  DEF MarkFailed, Early, Located, TypeOK, Waiting, InFlight, Shows, Unchecked, Go, Leave, Unlocked
<1>30. ASSUME WorkerDies
       PROVE  Early'
  BY <1>30, <1>0
  DEF WorkerDies, Early, Located, TypeOK, Waiting, InFlight, Shows, Unchecked, Go, Leave, Unlocked
<1>31. ASSUME FindAbandoned
       PROVE  Early'
  BY <1>31, <1>0
  DEF FindAbandoned, Early, Located, TypeOK, Waiting, InFlight, Shows, Unchecked, Go, Leave,
      Unlocked
<1>32. ASSUME RemoveAbandoned
       PROVE  Early'
  BY <1>32, <1>0
  DEF RemoveAbandoned, Early, Located, TypeOK, Waiting, InFlight, Shows, Unchecked, Go, Leave,
      Unlocked
<1>33. ASSUME RemoveObjects
       PROVE  Early'
  BY <1>33, <1>0
  DEF RemoveObjects, Early, Located, TypeOK, Waiting, InFlight, Shows, Unchecked, Go, Leave,
      Unlocked
<1>34. ASSUME Initiate
       PROVE  Early'
  BY <1>34, <1>0
  DEF Initiate, Early, Located, TypeOK, Waiting, InFlight, Shows, Unchecked, Go, Leave, Unlocked,
      Fresh, New
<1>35. ASSUME UploadAttachment
       PROVE  Early'
  BY <1>35, <1>0
  DEF UploadAttachment, Early, Located, TypeOK, Waiting, InFlight, Shows, Unchecked, Go, Leave,
      Unlocked, Fresh, New
<1>36. ASSUME UploadAttachmentAsync
       PROVE  Early'
  BY <1>36, <1>0
  DEF UploadAttachmentAsync, Early, Located, TypeOK, Waiting, InFlight, Shows, Unchecked, Go, Leave,
      Unlocked, Fresh, New
<1>37. ASSUME Post
       PROVE  Early'
  BY <1>37, <1>0
  DEF Post, Early, Located, TypeOK, Waiting, InFlight, Shows, Unchecked, Go, Leave, Unlocked
<1>38. ASSUME Age
       PROVE  Early'
  BY <1>38, <1>0
  DEF Age, Early, Located, TypeOK, Waiting, InFlight, Shows, Unchecked, Go, Leave, Unlocked
<1>39. ASSUME ServeLate
       PROVE  Early'
  BY <1>39, <1>0
  DEF ServeLate, Early, Located, TypeOK, Waiting, InFlight, Shows, Unchecked, Go, Leave, Unlocked
<1>40. ASSUME UNCHANGED vars
      PROVE  Early'
  BY <1>40 DEF vars, Early, Waiting, InFlight, Shows
<1>41. ASSUME NEW q \in Showing, AskMainImage(q)
       PROVE  Early'
  <2>1. \A r \in Requests : ~InFlight(r)
    BY <1>41 DEF AskMainImage, Early
  <2>2. ~Waiting
    BY <1>41, <2>1 DEF AskMainImage, Waiting, Unchecked
  <2>3. ~Waiting' /\ \A r \in Requests : ~InFlight(r)'
    BY <1>41, <2>1, <2>2 DEF AskMainImage, Waiting, InFlight, TypeOK, Go
  <2>4. /\ UNCHANGED <<row, late, torn>>
        /\ at'[Sweep] = at[Sweep] /\ at'[Worker] = at[Worker]
    BY <1>41 DEF AskMainImage, TypeOK, Go
  <2> QED BY <2>3, <2>4 DEF Early
<1>42. ASSUME NEW q \in Showing, ShowImage(q)
       PROVE  Early'
  <2>1. ~Waiting /\ \A r \in Requests : ~InFlight(r)
    BY <1>42 DEF ShowImage, Shows, Early, Waiting
  <2>2. ~Waiting' /\ \A r \in Requests : ~InFlight(r)'
    BY <1>42, <2>1 DEF ShowImage, Waiting, InFlight, TypeOK, Go
  <2>3. /\ UNCHANGED <<row, late, torn>>
        /\ at'[Sweep] = at[Sweep] /\ at'[Worker] = at[Worker]
    BY <1>42 DEF ShowImage, TypeOK, Go
  <2> QED BY <2>2, <2>3 DEF Early
<1>43. ASSUME NEW q \in Showing, FlagImage(q)
       PROVE  Early'
  <2>1. ~Waiting /\ \A r \in Requests : ~InFlight(r)
    BY <1>43 DEF FlagImage, Shows, Early, Waiting
  <2>2. row' # None => row # None /\ row'.securityStatus = row.securityStatus
    BY <1>43 DEF FlagImage, TypeOK, Row
  <2>3. ~Waiting' /\ \A r \in Requests : ~InFlight(r)'
    BY <1>43, <2>1, <2>2 DEF FlagImage, Waiting, InFlight, TypeOK, Leave
  <2>4. /\ UNCHANGED <<late, torn>> /\ (row = None => row' = None)
        /\ at'[Sweep] = at[Sweep] /\ at'[Worker] = at[Worker]
    BY <1>43 DEF FlagImage, TypeOK, Leave
  <2> QED BY <2>3, <2>4 DEF Early
<1>44. ASSUME NEW q \in Showing, GiveUpImage(q)
       PROVE  Early'
  <2>1. ~Waiting /\ \A r \in Requests : ~InFlight(r)
    BY <1>44 DEF GiveUpImage, Shows, Early, Waiting
  <2>2. ~Waiting' /\ \A r \in Requests : ~InFlight(r)'
    BY <1>44, <2>1 DEF GiveUpImage, Waiting, InFlight, TypeOK, Leave
  <2>3. /\ UNCHANGED row /\ torn'
        /\ at'[Sweep] = at[Sweep] /\ at'[Worker] = at[Worker]
    BY <1>44 DEF GiveUpImage, TypeOK, Leave
  <2> QED BY <2>2, <2>3 DEF Early
<1> QED BY <1>1, <1>2, <1>3, <1>4, <1>5, <1>6, <1>7, <1>8, <1>9, <1>10, <1>11, <1>12, <1>13,
           <1>14, <1>15, <1>16, <1>17, <1>18, <1>19, <1>20, <1>21, <1>22, <1>23, <1>24, <1>25,
           <1>26, <1>27, <1>28, <1>29, <1>30, <1>31, <1>32, <1>33, <1>34, <1>35, <1>36, <1>37,
           <1>38, <1>39, <1>40, <1>41, <1>42, <1>43, <1>44
     DEF Next, CompleteStep, OwnerStep, ImageStep, LockedStep, PurgeStep, WorkerStep, SweepStep

-----------------------------------------------------------------------------
(* What was checked is what is stored. *)

LEMMA VerifiedInit == Init => Verified
BY ActorFacts
DEF Init, Verified, Private, Stripped, WorkerCopy, RequestCopy, RowVerified, Clean,
    CleanOrShown, Keys

LEMMA VerifiedStep == TypeOK /\ Located /\ Early /\ Verified /\ [Next]_vars => Verified'
<1> SUFFICES ASSUME TypeOK, Located, Early, Verified, [Next]_vars
             PROVE  Verified'
  OBVIOUS
<1> USE ActorFacts
<1>0. /\ TypeOK' /\ Located' /\ Early'
      /\ Blank.keys = {} /\ Blank.acl = FALSE
      /\ {"pending_upload", "verifying", "processing", "completed", "failed", "rejected"}
           \subseteq Statuses
      /\ Keys = {"incoming", "file", "thumbnail"}
  BY TypeStep, LocatedStep, EarlyStep DEF Blank, Statuses, Keys
<1>1. ASSUME NEW q \in Completing, AskComplete(q)
      PROVE  Verified'
  BY <1>1, <1>0
  DEF AskComplete, Verified, Private, Stripped, WorkerCopy, RequestCopy, RowVerified,
      FileVerified, Clean, CleanOrShown, Early, Waiting, InFlight, Unchecked, Located,
      TypeOK, Go, Leave,
      Unlocked
<1>2. ASSUME NEW q \in Completing, Claim(q)
      PROVE  Verified'
  BY <1>2, <1>0, StatusUpdated
  DEF Claim, Verified, Private, Stripped, WorkerCopy, RequestCopy, RowVerified, FileVerified,
      Clean, CleanOrShown, Early, Waiting, InFlight, Unchecked, Located, TypeOK, Go, Leave,
      Unlocked
<1>3. ASSUME NEW q \in Completing, HeadObject(q)
      PROVE  Verified'
  <2>1. /\ my'[q].acl = my[q].acl
        /\ at'[q] = "sniff" => my'[q].content = objects["incoming"].content
                               /\ objects["incoming"] # None
        /\ \A b \in Actors : b # q => my'[b] = my[b]
    BY <1>3 DEF HeadObject, Go, TypeOK, Locals
  <2>2. at'[q] = "sniff" => my'[q].content \in Stored
    <3>1. objects["incoming"] # None => objects["incoming"] \in Object
      BY <1>0 DEF TypeOK
    <3> QED BY <2>1, <3>1, ObjectFields
  <2>3. /\ at[q] = "head" /\ at' = [at EXCEPT ![q] = at'[q]] /\ at'[q] \in {"sniff", "unclaim"}
        /\ UNCHANGED <<row, objects, late, torn, shown>>
    BY <1>3 DEF HeadObject, TypeOK, Go
  <2> QED BY <2>1, <2>2, <2>3
      DEF TypeOK, Verified, Private, Stripped, WorkerCopy, RequestCopy, RowVerified,
          FileVerified, Clean, CleanOrShown
<1>4. ASSUME NEW q \in Completing, SniffContent(q)
      PROVE  Verified'
  BY <1>4, <1>0
  DEF SniffContent, Verified, Private, Stripped, WorkerCopy, RequestCopy, RowVerified,
      FileVerified, Clean, CleanOrShown, Early, Waiting, InFlight, Unchecked, Located,
      TypeOK, Go, Leave,
      Unlocked
<1>5. ASSUME NEW q \in Completing, CopyIfUnchanged(q)
      PROVE  Verified'
  <2>1. /\ at[q] = "copy" /\ Go(q, "dropUpload")
        /\ objects' = [objects EXCEPT !["file"] = [content |-> my[q].content, public |-> FALSE]]
        /\ UNCHANGED <<row, late, torn, shown, my>>
    BY <1>5 DEF CopyIfUnchanged, Unchanged, Put
  <2>2. my[q].content \in Stored
    BY <2>1 DEF Verified, RequestCopy
  <2>3. /\ \A k \in Keys : k # "file" => objects'[k] = objects[k]
        /\ objects'["file"] # None /\ objects'["file"].content = my[q].content
        /\ ~objects'["file"].public
    <3>1. objects \in [Keys -> Object \cup {None}]
      BY DEF TypeOK
    <3> QED BY <1>0, <2>1, <2>2, <3>1, StoredObject
  <2>4. /\ InFlight(q) /\ Waiting
        /\ \A r \in Requests : r # q => ~InFlight(r)
        /\ row # None => row.securityStatus = "verifying"
        /\ at[Worker] = "idle" /\ <<"file", TRUE>> \notin late
        /\ \A a \in Actors : at[a] = "acl" => ~my[a].acl
        /\ \A r \in Requests : at[r] # "show"
    BY <2>1 DEF InFlight, Waiting, Early, Shows
  <2> QED BY <1>0, <2>1, <2>2, <2>3, <2>4
      DEF TypeOK, InFlight, Unchecked, Go, Verified, Private, Stripped, WorkerCopy, RequestCopy,
          RowVerified, FileVerified, Clean, CleanOrShown
<1>6. ASSUME NEW q \in Completing, DropUpload(q)
      PROVE  Verified'
  BY <1>6, <1>0
  DEF DropUpload, Verified, Private, Stripped, WorkerCopy, RequestCopy, RowVerified,
      FileVerified, Clean, CleanOrShown, Early, Waiting, InFlight, Unchecked, Located,
      TypeOK, Go, Leave,
      Unlocked, Remove
<1>7. ASSUME NEW q \in Completing, Publish(q)
      PROVE  Verified'
  <2>1. /\ at[q] = "publish" /\ Go(q, "commit") /\ objects["file"] # None
        /\ objects' = [objects EXCEPT !["file"].public = TRUE]
        /\ UNCHANGED <<row, late, torn, shown, my>>
    BY <1>7 DEF Publish
  <2>2. /\ \A k \in Keys : k # "file" => objects'[k] = objects[k]
        /\ objects'["file"] # None /\ objects'["file"].content = objects["file"].content
    BY <1>0, <2>1, PublicUpdated DEF TypeOK
  <2>3. objects["file"].content = my[q].content /\ ~my[q].content.metadata
    <3>1. /\ objects["file"].content = my[q].content /\ my[q].content \in Stored
          /\ my[q].content.detected \notin Images
      BY <2>1 DEF Verified, RequestCopy
    <3> QED BY <3>1, MetadataIsOfImages
  <2> QED BY <1>0, <2>1, <2>2, <2>3
      DEF TypeOK, Go, Verified, Private, Stripped, WorkerCopy, RequestCopy, RowVerified,
          FileVerified, Clean, CleanOrShown
<1>8. ASSUME NEW q \in Completing, Commit(q)
      PROVE  Verified'
  <2>1. /\ at[q] = "commit" /\ Leave(q) /\ UNCHANGED <<objects, late, torn, shown>>
    BY <1>8 DEF Commit
  <2>2. /\ \A r \in Requests : ~InFlight(r) \/ r = q
        /\ at[Worker] = "idle"
    BY <2>1 DEF Early, InFlight, Waiting
  <2>3. row # None => /\ row' # None /\ row'.declared = row.declared
                      /\ row'.securityStatus = IF my[q].content.detected \in Images
                                               THEN "processing" ELSE "completed"
    <3>1. row # None => row \in Row
      BY DEF TypeOK
    <3> QED BY <1>0, <1>8, <3>1, StatusUpdated DEF Commit
  <2>4. /\ row = None => row' = None
    BY <1>8 DEF Commit
  <2>5. my[q].content.metadata => my[q].content.detected \in Images
    BY <2>1, MetadataIsOfImages DEF Verified, RequestCopy
  <2>6. row # None => BeginsValid(row.declared, my[q].content) /\ FileVerified
    BY <2>1 DEF Verified, RequestCopy, FileVerified
  <2>7. objects["file"] # None => objects["file"].content = my[q].content
    BY <2>1 DEF Verified, RequestCopy
  <2> QED BY <1>0, <2>1, <2>2, <2>3, <2>4, <2>5, <2>6, <2>7
      DEF TypeOK, InFlight, Leave, Verified, Private, Stripped, WorkerCopy, RequestCopy,
          RowVerified, FileVerified, Clean, CleanOrShown
<1>9. ASSUME NEW q \in Completing, Reopen(q)
      PROVE  Verified'
  BY <1>9, <1>0, StatusUpdated
  DEF Reopen, Verified, Private, Stripped, WorkerCopy, RequestCopy, RowVerified, FileVerified,
      Clean, CleanOrShown, Early, Waiting, InFlight, Unchecked, Located, TypeOK, Go, Leave,
      Unlocked
<1>10. ASSUME NEW q \in Completing, Unclaim(q)
       PROVE  Verified'
  BY <1>10, <1>0, StatusUpdated
  DEF Unclaim, Verified, Private, Stripped, WorkerCopy, RequestCopy, RowVerified, FileVerified,
      Clean, CleanOrShown, Early, Waiting, InFlight, Unchecked, Located, TypeOK, Go, Leave,
      Unlocked
<1>11. ASSUME NEW q \in Completing, RejectKeys(q)
       PROVE  Verified'
  BY <1>11, <1>0
  DEF RejectKeys, Verified, Private, Stripped, WorkerCopy, RequestCopy, RowVerified,
      FileVerified, Clean, CleanOrShown, Early, Waiting, InFlight, Unchecked, Located,
      TypeOK, Go, Leave,
      Unlocked
<1>12. ASSUME NEW q \in Completing, RejectRow(q)
       PROVE  Verified'
  BY <1>12, <1>0, StatusUpdated
  DEF RejectRow, Verified, Private, Stripped, WorkerCopy, RequestCopy, RowVerified,
      FileVerified, Clean, CleanOrShown, Early, Waiting, InFlight, Unchecked, Located,
      TypeOK, Go, Leave,
      Unlocked
<1>13. ASSUME NEW q \in Completing, CompleteFails(q)
       PROVE  Verified'
  BY <1>13, <1>0
  DEF CompleteFails, Verified, Private, Stripped, WorkerCopy, RequestCopy, RowVerified,
      FileVerified, Clean, CleanOrShown, Early, Waiting, InFlight, Unchecked, Located,
      TypeOK, Go, Leave,
      Unlocked
<1>14. ASSUME NEW q \in Changing, AskChange(q)
       PROVE  Verified'
  BY <1>14, <1>0
  DEF AskChange, Verified, Private, Stripped, WorkerCopy, RequestCopy, RowVerified,
      FileVerified, Clean, CleanOrShown, Early, Waiting, InFlight, Unchecked, Located,
      TypeOK, Go, Leave,
      Unlocked
<1>15. ASSUME NEW q \in Changing, GiveUpChange(q)
       PROVE  Verified'
  <2>1. /\ at[q] \in {"acl", "save"} /\ Leave(q)
        /\ late' = late \cup {<<key, my[q].acl>> : key \in my[q].keys}
        /\ torn' = TRUE /\ UNCHANGED <<row, objects, shown>>
    BY <1>15 DEF GiveUpChange
  <2>2. <<"file", TRUE>> \in late' => CleanOrShown
    <3>1. at[q] = "save" => my[q].keys = {}
      BY DEF Located
    <3> QED BY <2>1, <3>1 DEF Verified, Stripped, CleanOrShown
  <2> QED BY <1>0, <2>1, <2>2
      DEF TypeOK, Leave, Verified, Private, Stripped, WorkerCopy, RequestCopy, RowVerified,
          FileVerified, Clean, CleanOrShown
<1>16. ASSUME NEW q \in Changing, AskHardDelete(q)
       PROVE  Verified'
  BY <1>16, <1>0
  DEF AskHardDelete, Verified, Private, Stripped, WorkerCopy, RequestCopy, RowVerified,
      FileVerified, Clean, CleanOrShown, Early, Waiting, InFlight, Unchecked, Located,
      TypeOK, Go, Leave,
      Unlocked
<1>17. ASSUME NEW a \in Requests \cup {Worker}, LockRow(a)
       PROVE  Verified'
  <2>1. /\ at[a] = "lock" /\ row # None /\ UNCHANGED <<row, objects, late>>
        /\ "raw" \in shown => "raw" \in shown'
    BY <1>17 DEF LockRow, Crossed
  <2>2. CASE Leave(a) /\ UNCHANGED <<lock, torn>>
    BY <1>0, <2>1, <2>2
    DEF TypeOK, Leave, Verified, Private, Stripped, WorkerCopy, RequestCopy, RowVerified,
        FileVerified, Clean, CleanOrShown
  <2>3. CASE lock' = a /\ Go(a, "save") /\ UNCHANGED <<my, torn>>
    BY <1>0, <2>1, <2>3
    DEF TypeOK, Go, Verified, Private, Stripped, WorkerCopy, RequestCopy, RowVerified,
        FileVerified, Clean, CleanOrShown
  <2>4. CASE /\ ~(my[a].op = "public" /\ row.securityStatus \in UNPROCESSED)
             /\ torn' = (torn /\ (late # {} \/ \E key \in StorageKeys(row) :
                                                objects[key] = None))
             /\ my' = [my EXCEPT ![a].keys = StorageKeys(row), ![a].acl = AclFor(my[a].op)]
             /\ Go(a, "acl")
    <3>1. /\ my'[a].acl = AclFor(my[a].op) /\ my'[a].content = my[a].content
          /\ \A b \in Actors : b # a => my'[b] = my[b]
      BY <1>17, <2>4 DEF TypeOK, Locals
    <3>2. AclFor(my[a].op) => Clean("file")
      <4>1. CASE row.securityStatus = "completed"
        BY <2>1, <4>1 DEF Verified, Stripped
      <4>2. CASE a = Worker
        BY <2>1, <4>2 DEF Verified, Stripped
      <4>3. CASE row.securityStatus # "completed" /\ a # Worker
        <5>1. row.securityStatus \in UNPROCESSED
          BY <2>1, <4>3 DEF TypeOK, Row, Statuses, UNPROCESSED
        <5>2. my[a].op \in {"public", "private", "delete", "restore"}
          BY <1>17, <2>1, <4>3 DEF Located, Operation
        <5> QED BY <2>4, <5>1, <5>2 DEF AclFor
      <4> QED BY <4>1, <4>2, <4>3
    <3>3. torn => torn' \/ objects["file"] # None
      BY <2>4 DEF StorageKeys
    <3> QED BY <1>0, <2>1, <2>4, <3>1, <3>2, <3>3
        DEF TypeOK, Go, Verified, Private, Stripped, WorkerCopy, RequestCopy, RowVerified,
            FileVerified, Clean, CleanOrShown
  <2> QED BY <1>17, <2>2, <2>3, <2>4 DEF LockRow
<1>18. ASSUME NEW a \in Requests \cup {Worker}, LockNothing(a)
       PROVE  Verified'
  BY <1>18, <1>0
  DEF LockNothing, Verified, Private, Stripped, WorkerCopy, RequestCopy, RowVerified,
      FileVerified, Clean, CleanOrShown, Early, Waiting, InFlight, Unchecked, Located,
      TypeOK, Go, Leave,
      Unlocked
<1>19. ASSUME NEW a \in Requests \cup {Worker}, SetAcl(a)
       PROVE  Verified'
  <2>1. PICK key \in my[a].keys :
          /\ objects[key] # None
          /\ objects' = [objects EXCEPT ![key].public = my[a].acl]
          /\ my' = [my EXCEPT ![a].keys = @ \ {key}]
          /\ Go(a, IF my[a].keys = {key} THEN "save" ELSE "acl")
    BY <1>19 DEF SetAcl
  <2>2. /\ at[a] = "acl" /\ UNCHANGED <<row, lock, job, stale, late, torn, shown>>
        /\ my[a] \in Locals /\ key \in Keys /\ key # "incoming"
    BY <1>0, <1>19, <2>1 DEF SetAcl, TypeOK, Located
  <2>3. /\ \A k \in Keys : k # key => objects'[k] = objects[k]
        /\ objects'[key] # None /\ objects'[key].content = objects[key].content
        /\ objects'[key].public = my[a].acl
    BY <2>1, <2>2, LocalFields, PublicUpdated DEF TypeOK
  <2>4. /\ my'[a].acl = my[a].acl /\ my'[a].content = my[a].content
        /\ \A b \in Actors : b # a => my'[b] = my[b]
    BY <2>1 DEF TypeOK, Locals
  <2>5. at'[a] \in {"acl", "save"} /\ \A b \in Actors : b # a => at'[b] = at[b]
    BY <2>1 DEF TypeOK, Go
  <2>6. my[a].acl => Clean("file")
    BY <2>2 DEF Verified, Stripped
  <2>7. \A k \in Keys : /\ objects'[k] = None <=> objects[k] = None
                        /\ objects[k] # None => objects'[k].content = objects[k].content
    BY <2>1, <2>3
  <2>8. Private'
    BY <1>0, <2>2, <2>3, <2>6, <2>7 DEF Verified, Private, Clean, CleanOrShown
  <2>9. (Clean("file") => Clean("file")') /\ (CleanOrShown => CleanOrShown')
    BY <1>0, <2>2, <2>7 DEF Clean, CleanOrShown
  <2>10. Stripped' /\ WorkerCopy'
    BY <2>2, <2>4, <2>5, <2>9 DEF Verified, Stripped, WorkerCopy
  <2>11. FileVerified => FileVerified'
    BY <1>0, <2>2, <2>7 DEF FileVerified
  <2>12. \A q \in Requests : RequestCopy(q)'
    BY <1>0, <2>2, <2>4, <2>5, <2>7 DEF Verified, RequestCopy
  <2> QED BY <2>2, <2>8, <2>10, <2>11, <2>12 DEF Verified, RowVerified
<1>20. ASSUME NEW a \in Requests \cup {Worker}, Save(a)
       PROVE  Verified'
  BY <1>20, <1>0, SavedFacts
  DEF Save, Verified, Private, Stripped, WorkerCopy, RequestCopy, RowVerified, FileVerified,
      Clean, CleanOrShown, Early, Waiting, InFlight, Unchecked, Located, TypeOK, Go, Leave,
      Unlocked
<1>21. ASSUME NEW a \in Requests \cup {Worker}, PurgeKey(a)
       PROVE  Verified'
  BY <1>21, <1>0
  DEF PurgeKey, Verified, Private, Stripped, WorkerCopy, RequestCopy, RowVerified, FileVerified,
      Clean, CleanOrShown, Early, Waiting, InFlight, Unchecked, Located, TypeOK, Go, Leave,
      Unlocked, Remove
<1>22. ASSUME NEW a \in Requests \cup {Worker}, PurgeRow(a)
       PROVE  Verified'
  BY <1>22, <1>0
  DEF PurgeRow, Verified, Private, Stripped, WorkerCopy, RequestCopy, RowVerified, FileVerified,
      Clean, CleanOrShown, Early, Waiting, InFlight, Unchecked, Located, TypeOK, Go, Leave,
      Unlocked
<1>23. ASSUME NEW a \in Requests \cup {Sweep}, Die(a)
       PROVE  Verified'
  BY <1>23, <1>0
  DEF Die, Verified, Private, Stripped, WorkerCopy, RequestCopy, RowVerified, FileVerified,
      Clean, CleanOrShown, Early, Waiting, InFlight, Unchecked, Located, TypeOK, Go, Leave,
      Unlocked
<1>24. ASSUME StartJob
       PROVE  Verified'
  <2>1. /\ at[Worker] = "idle" /\ job > 0 /\ UNCHANGED <<row, objects, late, torn>>
        /\ "raw" \in shown => "raw" \in shown'
    BY <1>24 DEF StartJob, Crossed
  <2>2. CASE UNCHANGED <<at, my>>
    BY <2>1, <2>2
    DEF Verified, Private, Stripped, WorkerCopy, RequestCopy, RowVerified, FileVerified,
        Clean, CleanOrShown
  <2>3. CASE Go(Worker, "markFailed") /\ UNCHANGED my
    BY <1>0, <2>1, <2>3
    DEF TypeOK, Go, Verified, Private, Stripped, WorkerCopy, RequestCopy, RowVerified,
        FileVerified, Clean, CleanOrShown
  <2>4. CASE /\ row # None /\ objects["file"] # None
             /\ my' = [my EXCEPT ![Worker].content = Prepare(objects["file"].content)]
             /\ Go(Worker, "replace")
    <3>1. /\ my'[Worker].acl = my[Worker].acl
          /\ my'[Worker].content = Prepare(objects["file"].content)
          /\ \A b \in Actors : b # Worker => my'[b] = my[b]
      BY <2>4 DEF TypeOK, Locals
    <3>2. objects["file"].content \in Stored
      <4>1. objects["file"] \in Object
        BY <1>0, <2>4 DEF TypeOK
      <4> QED BY <4>1, ObjectFields
    <3>3. row.securityStatus \notin Unchecked
      BY <2>1, <2>4 DEF Early, Waiting
    <3>4. BeginsValid(row.declared, objects["file"].content)
      BY <2>4, <3>3 DEF Verified, RowVerified, FileVerified
    <3>5. ~my'[Worker].content.metadata /\ BeginsValid(row.declared, my'[Worker].content)
      BY <3>1, <3>2, <3>4, Stripping, StoredFacts, StrippedBeginsAlike
    <3> QED BY <1>0, <2>1, <2>4, <3>1, <3>5
        DEF TypeOK, Go, Verified, Private, Stripped, WorkerCopy, RequestCopy, RowVerified,
            FileVerified, Clean, CleanOrShown
  <2> QED BY <1>24, <2>2, <2>3, <2>4 DEF StartJob
<1>25. ASSUME Replace
       PROVE  Verified'
  <2>1. /\ at[Worker] = "replace" /\ Go(Worker, "derive")
        /\ UNCHANGED <<row, late, torn, shown, my>>
        /\ objects' = [objects EXCEPT !["file"] =
                         [content |-> my[Worker].content, public |-> FALSE]]
    BY <1>25 DEF Replace, Put
  <2>2. /\ my[Worker].content \in Stored /\ ~my[Worker].content.metadata
        /\ row # None => BeginsValid(row.declared, my[Worker].content)
    BY <2>1 DEF Located, Verified, WorkerCopy
  <2>3. /\ \A k \in Keys : k # "file" => objects'[k] = objects[k]
        /\ objects'["file"] # None /\ objects'["file"].content = my[Worker].content
        /\ ~objects'["file"].public
    <3>1. objects \in [Keys -> Object \cup {None}]
      BY DEF TypeOK
    <3> QED BY <1>0, <2>1, <2>2, <3>1, StoredObject
  <2>4. ~Waiting /\ \A q \in Requests : ~InFlight(q)
    BY <2>1 DEF Early, Waiting
  <2> QED BY <1>0, <2>1, <2>2, <2>3, <2>4
      DEF TypeOK, InFlight, Go, Verified, Private, Stripped, WorkerCopy, RequestCopy,
          RowVerified, FileVerified, Clean, CleanOrShown
<1>26. ASSUME Derive
       PROVE  Verified'
  <2>1. /\ at[Worker] = "derive" /\ Go(Worker, "finish")
        /\ UNCHANGED <<row, late, torn, shown, my>>
        /\ objects' = [objects EXCEPT !["thumbnail"] =
                         [content |-> Thumbnail(my[Worker].content), public |-> FALSE]]
    BY <1>26 DEF Derive, Put
  <2>2. /\ Thumbnail(my[Worker].content) \in Stored
        /\ ~Thumbnail(my[Worker].content).metadata
    BY <2>1, Stripping, StoredFacts DEF Located
  <2>3. /\ \A k \in Keys : k # "thumbnail" => objects'[k] = objects[k]
        /\ objects'["thumbnail"] # None
        /\ objects'["thumbnail"].content = Thumbnail(my[Worker].content)
        /\ ~objects'["thumbnail"].public
    <3>1. objects \in [Keys -> Object \cup {None}]
      BY DEF TypeOK
    <3> QED BY <1>0, <2>1, <2>2, <3>1, StoredObject
  <2> QED BY <1>0, <2>1, <2>2, <2>3
      DEF TypeOK, Go, Verified, Private, Stripped, WorkerCopy, RequestCopy, RowVerified,
          FileVerified, Clean, CleanOrShown
<1>27. ASSUME Finish
       PROVE  Verified'
  <2>1. at[Worker] = "finish" /\ UNCHANGED <<objects, late, torn, shown>>
    BY <1>27 DEF Finish
  <2>2. /\ at'[Worker] \in {"purge", "lock"} /\ \A b \in Actors : b # Worker => at'[b] = at[b]
        /\ \A b \in Actors : b # Worker => my'[b] = my[b]
    BY <1>27 DEF Finish, Go, TypeOK
  <2>3. CASE row = None
    BY <1>27, <2>1, <2>2, <2>3
    DEF Finish, Verified, Private, Stripped, WorkerCopy, RequestCopy, RowVerified, FileVerified,
        Clean, CleanOrShown
  <2>4. CASE row # None
    <3>1. row' # None /\ row'.declared = row.declared
      <4>1. row' = [row EXCEPT !.securityStatus = "completed", !.derived = TRUE]
        BY <1>27, <2>4 DEF Finish
      <4>2. row' \in Row /\ row'.declared = row.declared
        BY <2>4, <4>1 DEF TypeOK, Row, Statuses
      <4> QED BY <4>2, RowFields
    <3>2. Clean("file")
      BY <2>1 DEF Verified, Stripped
    <3>3. row.securityStatus \notin Unchecked
      BY <2>1, <2>4 DEF Early, Waiting
    <3> QED BY <2>1, <2>2, <2>4, <3>1, <3>2, <3>3
        DEF Verified, Private, Stripped, WorkerCopy, RequestCopy, RowVerified, FileVerified,
            Clean, CleanOrShown
  <2> QED BY <2>3, <2>4
<1>28. ASSUME JobFails
       PROVE  Verified'
  BY <1>28, <1>0
  DEF JobFails, Verified, Private, Stripped, WorkerCopy, RequestCopy, RowVerified, FileVerified,
      Clean, CleanOrShown, Early, Waiting, InFlight, Unchecked, Located, TypeOK, Go, Leave,
      Unlocked
<1>29. ASSUME MarkFailed
       PROVE  Verified'
  BY <1>29, <1>0, StatusUpdated
  DEF MarkFailed, Verified, Private, Stripped, WorkerCopy, RequestCopy, RowVerified,
      FileVerified, Clean, CleanOrShown, Early, Waiting, InFlight, Unchecked, Located,
      TypeOK, Go, Leave,
      Unlocked
<1>30. ASSUME WorkerDies
       PROVE  Verified'
  BY <1>30, <1>0
  DEF WorkerDies, Verified, Private, Stripped, WorkerCopy, RequestCopy, RowVerified,
      FileVerified, Clean, CleanOrShown, Early, Waiting, InFlight, Unchecked, Located,
      TypeOK, Go, Leave,
      Unlocked
<1>31. ASSUME FindAbandoned
       PROVE  Verified'
  BY <1>31, <1>0
  DEF FindAbandoned, Verified, Private, Stripped, WorkerCopy, RequestCopy, RowVerified,
      FileVerified, Clean, CleanOrShown, Early, Waiting, InFlight, Unchecked, Located,
      TypeOK, Go, Leave,
      Unlocked
<1>32. ASSUME RemoveAbandoned
       PROVE  Verified'
  BY <1>32, <1>0
  DEF RemoveAbandoned, Verified, Private, Stripped, WorkerCopy, RequestCopy, RowVerified,
      FileVerified, Clean, CleanOrShown, Early, Waiting, InFlight, Unchecked, Located,
      TypeOK, Go, Leave,
      Unlocked
<1>33. ASSUME RemoveObjects
       PROVE  Verified'
  BY <1>33, <1>0
  DEF RemoveObjects, Verified, Private, Stripped, WorkerCopy, RequestCopy, RowVerified,
      FileVerified, Clean, CleanOrShown, Early, Waiting, InFlight, Unchecked, Located,
      TypeOK, Go, Leave,
      Unlocked
<1>34. ASSUME Initiate
       PROVE  Verified'
  BY <1>34, <1>0
  DEF Initiate, Verified, Private, Stripped, WorkerCopy, RequestCopy, RowVerified, FileVerified,
      Clean, CleanOrShown, Early, Waiting, InFlight, Unchecked, Located, TypeOK, Go, Leave,
      Unlocked, Fresh,
      New
<1>35. ASSUME UploadAttachment
       PROVE  Verified'
  <2>1. PICK file \in Files, content \in Contents, isPublic \in BOOLEAN :
          LET image == file.mimetype \in Images
              stored == IF image THEN Prepare(content) ELSE content
          IN  /\ ContentValid(file, content, FALSE)
              /\ objects' = [objects EXCEPT
                   !["file"] = [content |-> stored, public |-> isPublic],
                   !["thumbnail"] = IF image
                                    THEN [content |-> Thumbnail(stored), public |-> isPublic]
                                    ELSE None]
              /\ row' = New(file, "completed", isPublic, image)
    BY <1>35 DEF UploadAttachment
  <2> DEFINE image == file.mimetype \in Images
             stored == IF image THEN Prepare(content) ELSE content
  <2>2. content \in Stored
    BY DEF Stored
  <2>3. BeginsValid(file, content) /\ (~image => ~content.metadata)
    BY <2>1, <2>2, ValidBegins, MatchingTypes
  <2>4. stored \in Stored /\ ~stored.metadata /\ BeginsValid(file, stored)
    BY <2>2, <2>3, Stripping, StoredFacts, StrippedBeginsAlike
  <2>5. Thumbnail(stored) \in Stored /\ ~Thumbnail(stored).metadata
    BY <2>4, Stripping, StoredFacts
  <2>6. /\ objects'["incoming"] = None
        /\ objects'["file"] = [content |-> stored, public |-> isPublic]
        /\ objects'["thumbnail"] = IF image
             THEN [content |-> Thumbnail(stored), public |-> isPublic] ELSE None
    BY <1>0, <1>35, <2>1 DEF UploadAttachment, Fresh
  <2>7. [content |-> stored, public |-> isPublic] # None
    BY <2>4, ObjectFields DEF Object
  <2>8. row' # None /\ row'.declared = file
    <3>1. row' \in Row
      BY <2>1 DEF Row, New, Statuses
    <3> QED BY <2>1, <3>1, RowFields DEF New
  <2>9. /\ \A a \in Actors : at'[a] = "idle"
        /\ late' = {}
    BY <1>35 DEF UploadAttachment, Fresh
  <2> HIDE DEF image, stored
  <2>10. Clean("file")' /\ Clean("thumbnail")' /\ FileVerified'
    BY <2>4, <2>5, <2>6, <2>7, <2>8 DEF Clean, CleanOrShown, FileVerified
  <2> QED BY <2>6, <2>9, <2>10
          DEF Verified, Private, Stripped, WorkerCopy, RequestCopy, RowVerified, CleanOrShown
<1>36. ASSUME UploadAttachmentAsync
       PROVE  Verified'
  <2>1. PICK file \in Files, content \in Contents, isPublic \in BOOLEAN :
          LET image == file.mimetype \in Images
          IN  /\ ContentValid(file, content, FALSE)
              /\ objects' = [objects EXCEPT
                               !["file"] = [content |-> content, public |-> isPublic /\ ~image]]
              /\ row' = New(file, IF image THEN "processing" ELSE "completed", isPublic, FALSE)
    BY <1>36 DEF UploadAttachmentAsync, Put
  <2> DEFINE image == file.mimetype \in Images
  <2>2. content \in Stored /\ (isPublic /\ ~image) \in BOOLEAN
    BY DEF Stored
  <2>3. BeginsValid(file, content) /\ (~image => ~content.metadata)
    BY <2>1, <2>2, ValidBegins, MatchingTypes
  <2>4. /\ objects'["file"] # None /\ objects'["file"].content = content
        /\ objects'["file"].public = (isPublic /\ ~image)
        /\ \A k \in Keys : k # "file" => objects'[k] = objects[k]
    <3>1. objects \in [Keys -> Object \cup {None}]
      BY DEF TypeOK
    <3> QED BY <1>0, <2>1, <2>2, <3>1, StoredObject
  <2>5. objects["incoming"] = None /\ objects["thumbnail"] = None
    BY <1>0, <1>36 DEF UploadAttachmentAsync, Fresh
  <2>6. /\ row' # None /\ row'.declared = file
        /\ row'.securityStatus = IF image THEN "processing" ELSE "completed"
    <3>1. row' \in Row
      BY <2>1 DEF Row, New, Statuses
    <3> QED BY <2>1, <3>1, RowFields DEF New
  <2>7. /\ \A a \in Actors : at'[a] = "idle"
        /\ late' = {}
    BY <1>36 DEF UploadAttachmentAsync, Fresh
  <2> HIDE DEF image
  <2>8. FileVerified' /\ Clean("thumbnail")' /\ (~image => Clean("file")')
    BY <1>0, <2>3, <2>4, <2>5, <2>6 DEF Clean, CleanOrShown, FileVerified
  <2> QED BY <1>0, <2>4, <2>5, <2>6, <2>7, <2>8
      DEF Verified, Private, Stripped, WorkerCopy, RequestCopy, RowVerified, CleanOrShown
<1>37. ASSUME Post
       PROVE  Verified'
  BY <1>37, <1>0
  DEF Post, Verified, Private, Stripped, WorkerCopy, RequestCopy, RowVerified, FileVerified,
      Clean, CleanOrShown, Early, Waiting, InFlight, Unchecked, Located, TypeOK, Go, Leave,
      Unlocked, Put
<1>38. ASSUME Age
       PROVE  Verified'
  BY <1>38, <1>0
  DEF Age, Verified, Private, Stripped, WorkerCopy, RequestCopy, RowVerified, FileVerified,
      Clean, CleanOrShown, Early, Waiting, InFlight, Unchecked, Located, TypeOK, Go, Leave,
      Unlocked
<1>39. ASSUME ServeLate
       PROVE  Verified'
  <2>1. PICK call \in late :
          /\ late' = late \ {call}
          /\ objects' = IF objects[call[1]] = None THEN objects
                        ELSE [objects EXCEPT ![call[1]].public = call[2]]
          /\ UNCHANGED <<row, torn, shown, at, my>>
    BY <1>39 DEF ServeLate
  <2>2. PICK key \in {"file", "thumbnail"}, public \in BOOLEAN : call = <<key, public>>
    BY <2>1 DEF Located
  <2>3. CASE objects[key] = None
    BY <2>1, <2>2, <2>3
    DEF Verified, Private, Stripped, WorkerCopy, RequestCopy, RowVerified, FileVerified,
        Clean, CleanOrShown
  <2>4. CASE objects[key] # None
    <3>1. /\ \A k \in Keys : k # key => objects'[k] = objects[k]
          /\ objects'[key] # None /\ objects'[key].content = objects[key].content
          /\ objects'[key].public = public
      BY <1>0, <2>1, <2>2, <2>4, PublicUpdated DEF TypeOK
    <3>2. key = "file" /\ public => CleanOrShown
      BY <2>1, <2>2 DEF Verified, Stripped
    <3> QED BY <1>0, <2>1, <2>2, <2>4, <3>1, <3>2
        DEF Verified, Private, Stripped, WorkerCopy, RequestCopy, RowVerified, FileVerified,
            Clean, CleanOrShown
  <2> QED BY <2>3, <2>4
<1>40. ASSUME UNCHANGED vars
      PROVE  Verified'
  BY <1>40
  DEF vars, Verified, Private, Stripped, WorkerCopy, RequestCopy, RowVerified, FileVerified,
      Clean, CleanOrShown
<1>41. ASSUME NEW q \in Showing, AskMainImage(q)
       PROVE  Verified'
  <2>1. /\ row # None /\ Go(q, "show") /\ UNCHANGED <<row, objects, late, torn>>
        /\ "raw" \in shown' <=> "raw" \in shown \/ row.securityStatus # "completed"
    BY <1>41 DEF AskMainImage, Crossed
  <2>2. \A b \in Actors : my'[b].acl = my[b].acl /\ my'[b].content = my[b].content
    BY <1>41 DEF AskMainImage, TypeOK, Locals
  <2>3. CleanOrShown'
    BY <2>1 DEF Verified, Stripped, Clean, CleanOrShown
  <2> QED BY <1>0, <2>1, <2>2, <2>3
      DEF TypeOK, Go, Verified, Private, Stripped, WorkerCopy, RequestCopy, RowVerified,
          FileVerified, Clean, CleanOrShown
<1>42. ASSUME NEW q \in Showing, ShowImage(q)
       PROVE  Verified'
  <2>0. PICK key : key = NextShown(q)
    OBVIOUS
  <2>1. /\ key \in {"file", "thumbnail"} /\ at[q] = "show" /\ objects[key] # None
        /\ objects' = [objects EXCEPT ![key].public = TRUE]
        /\ Go(q, at'[q]) /\ at'[q] \in {"show", "flag"}
        /\ UNCHANGED <<row, late, torn, shown>>
    BY <1>42, <2>0 DEF ShowImage, NextShown, Go, TypeOK
  <2>2. \A b \in Actors : my'[b].acl = my[b].acl /\ my'[b].content = my[b].content
    BY <1>42 DEF ShowImage, TypeOK, Locals
  <2>3. /\ \A k \in Keys : k # key => objects'[k] = objects[k]
        /\ objects'[key] # None /\ objects'[key].content = objects[key].content
        /\ objects'[key].public
    BY <1>0, <2>1, MadePublic DEF TypeOK
  <2>4. CleanOrShown
    BY <2>1 DEF Verified, Stripped
  <2>5. \A k \in Keys : /\ objects'[k] = None <=> objects[k] = None
                        /\ objects[k] # None => objects'[k].content = objects[k].content
    BY <2>1, <2>3
  <2>6. (Clean("file") => Clean("file")') /\ CleanOrShown'
    BY <1>0, <2>1, <2>4, <2>5 DEF Clean, CleanOrShown
  <2>7. Private'
    BY <1>0, <2>1, <2>3, <2>5, <2>6 DEF Verified, Private, Clean
  <2>8. Stripped' /\ WorkerCopy'
    BY <2>1, <2>2, <2>6 DEF TypeOK, Go, Verified, Stripped, WorkerCopy
  <2>9. FileVerified => FileVerified'
    BY <1>0, <2>1, <2>5 DEF FileVerified
  <2>10. \A r \in Requests : RequestCopy(r)'
    BY <1>0, <2>1, <2>2, <2>5 DEF TypeOK, Go, Verified, RequestCopy
  <2> QED BY <2>1, <2>7, <2>8, <2>9, <2>10 DEF Verified, RowVerified
<1>43. ASSUME NEW q \in Showing, FlagImage(q)
       PROVE  Verified'
  <2>1. Leave(q) /\ UNCHANGED <<objects, late, torn, shown>>
    BY <1>43 DEF FlagImage
  <2>2. /\ row = None <=> row' = None
        /\ row # None => /\ row'.declared = row.declared
                         /\ row'.securityStatus = row.securityStatus
    <3>1. row # None => row' \in Row
      BY <1>43 DEF FlagImage, TypeOK, Row
    <3> QED BY <1>43, <3>1, RowFields DEF FlagImage, TypeOK, Row
  <2> QED BY <1>0, <2>1, <2>2
      DEF TypeOK, Leave, Verified, Private, Stripped, WorkerCopy, RequestCopy, RowVerified,
          FileVerified, Clean, CleanOrShown
<1>44. ASSUME NEW q \in Showing, GiveUpImage(q)
       PROVE  Verified'
  <2>1. /\ at[q] \in {"show", "flag"} /\ Leave(q)
        /\ late' = late \cup {<<key, TRUE>> : key \in my[q].keys \cap {NextShown(q)}}
        /\ torn' = TRUE /\ UNCHANGED <<row, objects, shown>>
    BY <1>44 DEF GiveUpImage
  <2>2. <<"file", TRUE>> \in late' => CleanOrShown
    <3>1. at[q] = "flag" => my[q].keys = {}
      BY DEF Located
    <3> QED BY <2>1, <3>1 DEF Verified, Stripped
  <2> QED BY <1>0, <2>1, <2>2
      DEF TypeOK, Leave, Verified, Private, Stripped, WorkerCopy, RequestCopy, RowVerified,
          FileVerified, Clean, CleanOrShown
<1> QED BY <1>1, <1>2, <1>3, <1>4, <1>5, <1>6, <1>7, <1>8, <1>9, <1>10, <1>11, <1>12, <1>13,
           <1>14, <1>15, <1>16, <1>17, <1>18, <1>19, <1>20, <1>21, <1>22, <1>23, <1>24, <1>25,
           <1>26, <1>27, <1>28, <1>29, <1>30, <1>31, <1>32, <1>33, <1>34, <1>35, <1>36, <1>37,
           <1>38, <1>39, <1>40, <1>41, <1>42, <1>43, <1>44
     DEF Next, CompleteStep, OwnerStep, ImageStep, LockedStep, PurgeStep, WorkerStep, SweepStep

-----------------------------------------------------------------------------
(* Access lists follow the row. *)

LEMMA AgreedInit == Init => Agreed
BY ActorFacts DEF Init, Agreed, AclDecided, AclServed, AclUnderWay, AclShown, ProcessedImage

\* Nothing changes for who holds the lock.
LEMMA DecidedKept ==
  ASSUME AclDecided, row' = row,
         \A a \in Actors : lock' = a =>
           lock = a /\ my'[a].op = my[a].op /\ my'[a].acl = my[a].acl
  PROVE  AclDecided'
BY DEF AclDecided, Saved

\* Nobody makes a main image, or it has met another change already.
LEMMA ShownKept ==
  ASSUME ~(Shows' /\ Whole')
  PROVE  AclShown'
BY DEF AclShown, Shows

\* Who makes a main image has met nobody who holds the lock, nor the worker.
LEMMA ShownAlone ==
  ASSUME AclShown, Shows, Whole
  PROVE  Unlocked /\ at[Worker] = "idle"
BY DEF AclShown, Shows

\* The step changes neither the row nor what is stored for it.
LEMMA AgreedKept ==
  ASSUME Agreed, row' = row, lock' = lock, Whole' => Whole,
         objects'["file"] = objects["file"], objects'["thumbnail"] = objects["thumbnail"],
         at'[Worker] = "idle" => at[Worker] = "idle",
         Whole' /\ Shows => at'[Worker] = at[Worker],
         \A a \in Actors : lock = a => my'[a] = my[a],
         \A q \in Requests :
           /\ at'[q] \in {"show", "flag"} <=> at[q] \in {"show", "flag"}
           /\ at[q] \in {"show", "flag"} => my'[q] = my[q]
  PROVE  Agreed'
<1>1. AclDecided'
  BY DecidedKept DEF Agreed
<1>2. \A key \in StorageKeys(row) : objects'[key] = objects[key]
  BY DEF StorageKeys
<1>3. /\ StorageKeys(row)' = StorageKeys(row) /\ ProcessedImage' = ProcessedImage
      /\ Shows' = Shows
  BY DEF StorageKeys, ProcessedImage, IsImage, Shows
<1>4. AclServed'
  BY <1>2, <1>3 DEF Agreed, AclServed, Visible, Unlocked
<1>5. AclUnderWay'
  BY <1>2, <1>3 DEF Agreed, AclUnderWay, Visible
<1>6. AclShown'
  <2>1. SUFFICES ASSUME NEW q \in Requests, at'[q] \in {"show", "flag"}, Whole'
                 PROVE  /\ lock = None /\ at'[Worker] = "idle"
                        /\ row # None => /\ ~row.deleted
                                         /\ Visible(StorageKeys(row) \ my[q].keys, TRUE)'
    BY DEF AclShown, Unlocked, Visible, StorageKeys
  <2>2. /\ lock = None /\ at[Worker] = "idle"
        /\ row # None => ~row.deleted /\ Visible(StorageKeys(row) \ my[q].keys, TRUE)
    BY <2>1 DEF Agreed, AclShown, Unlocked
  <2> QED BY <1>2, <1>3, <2>1, <2>2 DEF Shows, Visible
<1> QED BY <1>1, <1>4, <1>5, <1>6 DEF Agreed

\* The row is not completed.
LEMMA AgreedUnprocessed ==
  ASSUME Located', row' # None => row'.securityStatus # "completed", ~(Shows' /\ Whole')
  PROVE  Agreed'
<1>1. \A a \in Actors : lock' = a => row' # None
  BY ActorFacts DEF Located
<1> QED BY <1>1, ShownKept DEF Agreed, AclDecided, AclServed, AclUnderWay, ProcessedImage

\* A change broke off.
LEMMA AgreedTorn ==
  ASSUME AclDecided', torn'
  PROVE  Agreed'
BY DEF Agreed, AclServed, AclUnderWay, AclShown, Whole

LEMMA AgreedStep ==
  TypeOK /\ Located /\ Early /\ Verified /\ Agreed /\ [Next]_vars => Agreed'
<1> SUFFICES ASSUME TypeOK, Located, Early, Verified, Agreed, [Next]_vars
             PROVE  Agreed'
  OBVIOUS
<1> USE ActorFacts
<1>0. /\ TypeOK' /\ Located' /\ Early'
      /\ {"pending_upload", "verifying", "processing", "completed", "failed", "rejected"}
           \subseteq Statuses
      /\ Keys = {"incoming", "file", "thumbnail"}
  BY TypeStep, LocatedStep, EarlyStep DEF Blank, Statuses, Keys
<1>1. ASSUME NEW q \in Completing, AskComplete(q)
      PROVE  Agreed'
  <2>1. at[q] = "idle" /\ lock # q
    BY <1>1 DEF AskComplete, Located
  <2> QED BY <1>1, <2>1, AgreedKept DEF Whole, Shows, AskComplete, Go, TypeOK
<1>2. ASSUME NEW q \in Completing, Claim(q)
      PROVE  Agreed'
  BY <1>2, <1>0, StatusUpdated
  DEF Claim, Agreed, AclDecided, AclServed, AclUnderWay, AclShown, Whole, Shows,
      ProcessedImage, IsImage, Visible,
      Early, Waiting, InFlight, Located, TypeOK, Go, Leave, Unlocked, StorageKeys
<1>3. ASSUME NEW q \in Completing, HeadObject(q)
      PROVE  Agreed'
  <2>1. at[q] = "head" /\ lock # q
    BY <1>3 DEF HeadObject, Located
  <2> QED BY <1>3, <2>1, AgreedKept DEF Whole, Shows, HeadObject, Go, TypeOK
<1>4. ASSUME NEW q \in Completing, SniffContent(q)
      PROVE  Agreed'
  BY <1>4, <1>0
  DEF SniffContent, Agreed, AclDecided, AclServed, AclUnderWay, AclShown, Whole, Shows,
      ProcessedImage, IsImage,
      Visible, Early, Waiting, InFlight, Located, TypeOK, Go, Leave, Unlocked, StorageKeys
<1>5. ASSUME NEW q \in Completing, CopyIfUnchanged(q)
      PROVE  Agreed'
  <2>1. InFlight(q) /\ InFlight(q)' /\ row' = row
    BY <1>5 DEF CopyIfUnchanged, InFlight, Go, TypeOK
  <2> QED BY <1>0, <2>1, AgreedUnprocessed DEF Early, Waiting
<1>6. ASSUME NEW q \in Completing, DropUpload(q)
      PROVE  Agreed'
  <2> QED BY <1>0, <1>6, AgreedKept DEF Whole, Shows, DropUpload, Remove, Go, TypeOK
<1>7. ASSUME NEW q \in Completing, Publish(q)
      PROVE  Agreed'
  <2>1. InFlight(q) /\ InFlight(q)' /\ row' = row
    BY <1>7 DEF Publish, InFlight, Go, TypeOK
  <2> QED BY <1>0, <2>1, AgreedUnprocessed DEF Early, Waiting
<1>8. ASSUME NEW q \in Completing, Commit(q)
      PROVE  Agreed'
  <2>1. /\ at[q] = "commit" /\ Unlocked /\ lock' = lock
        /\ ~(Shows' /\ Whole')
    <3>1. ~Shows
      BY <1>8 DEF Commit, Early, Waiting, InFlight
    <3> QED BY <1>8, <3>1 DEF Commit, Leave, TypeOK, Shows
  <2>2. CASE row = None \/ my[q].content.detected \in Images
    <3>1. row' # None => row'.securityStatus # "completed"
      <4>1. row # None => row \in Row
        BY DEF TypeOK
      <4> QED BY <1>0, <1>8, <2>2, <4>1, StatusUpdated DEF Commit
    <3> QED BY <1>0, <2>1, <3>1, AgreedUnprocessed
  <2>3. CASE row # None /\ my[q].content.detected \notin Images
    <3>1. row \in Row
      BY <2>3 DEF TypeOK
    <3>2. row'.declared = row.declared
      BY <1>0, <1>8, <2>3, <3>1, StatusUpdated DEF Commit
    <3>3. ~IsImage(row)
      BY <2>1, <2>3, MatchingTypes DEF Verified, RequestCopy, IsImage
    <3> QED BY <2>1, <3>2, <3>3, ShownKept
        DEF Agreed, AclDecided, AclServed, AclUnderWay, ProcessedImage, IsImage, Unlocked
  <2> QED BY <2>2, <2>3
<1>9. ASSUME NEW q \in Completing, Reopen(q)
      PROVE  Agreed'
  BY <1>9, <1>0, StatusUpdated
  DEF Reopen, Agreed, AclDecided, AclServed, AclUnderWay, AclShown, Whole, Shows,
      ProcessedImage, IsImage, Visible,
      Early, Waiting, InFlight, Located, TypeOK, Go, Leave, Unlocked, StorageKeys
<1>10. ASSUME NEW q \in Completing, Unclaim(q)
       PROVE  Agreed'
  BY <1>10, <1>0, StatusUpdated
  DEF Unclaim, Agreed, AclDecided, AclServed, AclUnderWay, AclShown, Whole, Shows,
      ProcessedImage, IsImage, Visible,
      Early, Waiting, InFlight, Located, TypeOK, Go, Leave, Unlocked, StorageKeys
<1>11. ASSUME NEW q \in Completing, RejectKeys(q)
       PROVE  Agreed'
  <2>1. InFlight(q) /\ InFlight(q)' /\ row' = row
    BY <1>11 DEF RejectKeys, InFlight, Go, TypeOK
  <2> QED BY <1>0, <2>1, AgreedUnprocessed DEF Early, Waiting
<1>12. ASSUME NEW q \in Completing, RejectRow(q)
       PROVE  Agreed'
  BY <1>12, <1>0, StatusUpdated
  DEF RejectRow, Agreed, AclDecided, AclServed, AclUnderWay, AclShown, Whole, Shows,
      ProcessedImage, IsImage, Visible,
      Early, Waiting, InFlight, Located, TypeOK, Go, Leave, Unlocked, StorageKeys
<1>13. ASSUME NEW q \in Completing, CompleteFails(q)
       PROVE  Agreed'
  BY <1>13, <1>0
  DEF CompleteFails, Agreed, AclDecided, AclServed, AclUnderWay, AclShown, Whole, Shows,
      ProcessedImage, IsImage,
      Visible, Early, Waiting, InFlight, Located, TypeOK, Go, Leave, Unlocked, StorageKeys
<1>14. ASSUME NEW q \in Changing, AskChange(q)
       PROVE  Agreed'
  <2>1. at[q] = "idle" /\ lock # q
    BY <1>14 DEF AskChange, Located
  <2> QED BY <1>14, <2>1, AgreedKept DEF Whole, Shows, AskChange, Go, TypeOK
<1>15. ASSUME NEW q \in Changing, GiveUpChange(q)
       PROVE  Agreed'
  <2>1. lock' = None /\ torn' = TRUE
    BY <1>15 DEF GiveUpChange
  <2> QED BY <2>1, AgreedTorn DEF AclDecided
<1>16. ASSUME NEW q \in Changing, AskHardDelete(q)
       PROVE  Agreed'
  <2>1. at[q] = "idle" /\ lock # q
    BY <1>16 DEF AskHardDelete, Located
  <2> QED BY <1>16, <2>1, AgreedKept DEF Whole, Shows, AskHardDelete, Go, TypeOK
<1>17. ASSUME NEW a \in Requests \cup {Worker}, LockRow(a)
       PROVE  Agreed'
  <2>1. at[a] = "lock" /\ Unlocked /\ row # None /\ lock # a
        /\ UNCHANGED <<row, objects>>
    BY <1>17 DEF LockRow, Unlocked
  <2>2. CASE Leave(a) /\ UNCHANGED <<lock, torn, shown>>
    <3>1. a # Worker
      BY <1>17, <2>1, <2>2 DEF LockRow, Located, Operation
    <3> QED BY <2>1, <2>2, <3>1, AgreedKept DEF Whole, Shows, Leave, TypeOK
  <2>3. CASE /\ row.securityStatus \in UNPROCESSED
             /\ lock' = a /\ Go(a, "save") /\ shown' = Crossed(Shows)
    <3>1. ~(Shows' /\ Whole')
      BY <1>17, <2>3 DEF Shows, Whole, Crossed, Go, TypeOK
    <3> QED BY <1>0, <2>1, <2>3, <3>1, AgreedUnprocessed DEF UNPROCESSED
  <2>4. CASE /\ ~(my[a].op = "public" /\ row.securityStatus \in UNPROCESSED)
             /\ lock' = a /\ Go(a, "acl")
             /\ shown' = IF Shows THEN Crossed(TRUE) ELSE shown \ {"crossed"}
             /\ my' = [my EXCEPT ![a].keys = StorageKeys(row), ![a].acl = AclFor(my[a].op)]
    <3>1. /\ my'[a].acl = AclFor(my[a].op) /\ my'[a].op = my[a].op
          /\ my'[a].keys = StorageKeys(row)
      BY <1>17, <2>4 DEF TypeOK, Locals
    <3>2. \A b \in Actors : lock' = b <=> b = a
      BY <1>17, <2>4
    <3>3. AclServed' /\ AclUnderWay'
      BY <1>17, <2>1, <2>4, <3>1, <3>2 DEF AclServed, AclUnderWay, Unlocked, Visible,
      StorageKeys
    <3>4. my[a].op \in {"public", "private", "delete", "restore", "apply"}
      BY <1>17, <2>1 DEF Located, Operation
    <3>5. row \in Row
      BY <2>1 DEF TypeOK
    <3>6. row.securityStatus = "completed" =>
            AclFor(my[a].op) = (Saved(my[a].op).isPublic /\ ~Saved(my[a].op).deleted)
      <4>1. row.securityStatus = "completed" => row.securityStatus \notin UNPROCESSED
        BY DEF UNPROCESSED
      <4>2. CASE my[a].op = "public"
        BY <3>5, <4>2 DEF AclFor, Saved, Row
      <4>3. CASE my[a].op = "private"
        BY <3>5, <4>3 DEF AclFor, Saved, Row
      <4>4. CASE my[a].op = "delete"
        BY <3>5, <4>4 DEF AclFor, Saved, Row
      <4>5. CASE my[a].op = "restore"
        BY <3>5, <4>1, <4>5 DEF AclFor, Saved, Row
      <4>6. CASE my[a].op = "apply"
        BY <3>5, <4>6 DEF AclFor, Saved, Row
      <4> QED BY <3>4, <4>2, <4>3, <4>4, <4>5, <4>6
    <3>7. AclDecided'
      BY <2>1, <3>1, <3>2, <3>6 DEF AclDecided, Saved
    <3>8. AclShown'
      <4>1. ~(Shows' /\ Whole')
        BY <1>17, <2>4 DEF Shows, Whole, Crossed, Go, TypeOK
      <4> QED BY <4>1, ShownKept
    <3> QED BY <3>3, <3>7, <3>8 DEF Agreed
  <2> QED BY <1>17, <2>2, <2>3, <2>4 DEF LockRow
<1>18. ASSUME NEW a \in Requests \cup {Worker}, LockNothing(a)
       PROVE  Agreed'
  BY <1>18, <1>0
  DEF LockNothing, Agreed, AclDecided, AclServed, AclUnderWay, AclShown, Whole, Shows,
      ProcessedImage, IsImage, Visible,
      Early, Waiting, InFlight, Located, TypeOK, Go, Leave, Unlocked, StorageKeys
<1>19. ASSUME NEW a \in Requests \cup {Worker}, SetAcl(a)
       PROVE  Agreed'
  <2>1. PICK key \in my[a].keys :
          /\ objects[key] # None
          /\ objects' = [objects EXCEPT ![key].public = my[a].acl]
          /\ my' = [my EXCEPT ![a].keys = @ \ {key}]
          /\ Go(a, IF my[a].keys = {key} THEN "save" ELSE "acl")
    BY <1>19 DEF SetAcl
  <2>2. /\ at[a] = "acl" /\ lock = a /\ UNCHANGED <<row, lock, torn, shown>>
        /\ my[a] \in Locals /\ key \in Keys
    BY <1>0, <1>19, <2>1 DEF SetAcl, TypeOK, Located
  <2>3. /\ \A k \in Keys : k # key => objects'[k] = objects[k]
        /\ objects'[key] # None /\ objects'[key].public = my[a].acl
    BY <2>1, <2>2, LocalFields, PublicUpdated DEF TypeOK
  <2>4. /\ my'[a].acl = my[a].acl /\ my'[a].op = my[a].op
        /\ my'[a].keys = my[a].keys \ {key}
    BY <1>19, <2>1 DEF TypeOK, Locals
  <2>5. AclDecided'
    BY <2>2, <2>4, DecidedKept DEF Agreed
  <2>6. AclServed'
    BY <1>19, <2>2 DEF AclServed, Unlocked
  <2>7. AclUnderWay'
    <3>1. SUFFICES ASSUME ProcessedImage', Whole', a = Worker \/ at'[Worker] = "idle"
                   PROVE  Visible(StorageKeys(row) \ (my[a].keys \ {key}), my[a].acl)'
      BY <2>2, <2>4 DEF AclUnderWay, StorageKeys, Visible
    <3>2. ProcessedImage /\ Whole /\ (a = Worker \/ at[Worker] = "idle")
      BY <1>19, <2>1, <2>2, <3>1 DEF ProcessedImage, IsImage, Whole, Go, TypeOK
    <3>3. Visible(StorageKeys(row) \ my[a].keys, my[a].acl)
      BY <1>19, <2>2, <3>2 DEF Agreed, AclUnderWay
    <3>4. StorageKeys(row) \subseteq Keys
      BY <1>0 DEF StorageKeys
    <3> QED BY <2>2, <2>3, <2>4, <3>3, <3>4 DEF Visible, StorageKeys
  <2>8. AclShown'
    <3>1. ~(Shows /\ Whole)
      BY <1>19, <2>2, ShownAlone DEF Agreed, Unlocked
    <3>2. ~(Shows' /\ Whole')
      BY <1>19, <3>1 DEF SetAcl, Shows, Whole, Go, Leave, TypeOK
    <3> QED BY <3>2, ShownKept
  <2> QED BY <2>5, <2>6, <2>7, <2>8 DEF Agreed
<1>20. ASSUME NEW a \in Requests \cup {Worker}, Save(a)
       PROVE  Agreed'
  <2>1. /\ at[a] = "save" /\ lock = a /\ lock' = None /\ my[a].keys = {}
        /\ row' = Saved(my[a].op) /\ Leave(a)
        /\ UNCHANGED <<objects, torn, shown>>
    BY <1>20 DEF Save, Located
  <2>2. row # None
    BY <2>1 DEF Located
  <2>3. AclDecided' /\ AclUnderWay'
    BY <2>1 DEF AclDecided, AclUnderWay
  <2>4. AclServed'
    <3>1. SUFFICES ASSUME ProcessedImage', Whole', at'[Worker] = "idle"
                   PROVE  Visible(StorageKeys(row), row.isPublic /\ ~row.deleted)'
      BY DEF AclServed
    <3>2. /\ row'.declared = row.declared /\ row'.securityStatus = row.securityStatus
          /\ row'.derived = row.derived
      BY <2>1, <2>2, SavedFacts
    <3>3. ProcessedImage /\ Whole /\ (a = Worker \/ at[Worker] = "idle")
      BY <1>20, <2>1, <2>2, <3>1, <3>2 DEF ProcessedImage, IsImage, Whole, Leave, TypeOK
    <3>4. Visible(StorageKeys(row) \ my[a].keys, my[a].acl)
      BY <1>20, <2>1, <3>3 DEF Agreed, AclUnderWay
    <3>5. my[a].acl = (row'.isPublic /\ ~row'.deleted)
      BY <1>20, <2>1, <3>3 DEF Agreed, AclDecided, ProcessedImage
    <3>6. StorageKeys(row)' = StorageKeys(row) \ my[a].keys
      BY <2>1, <3>2 DEF StorageKeys
    <3> QED BY <2>1, <3>4, <3>5, <3>6 DEF Visible
  <2>5. AclShown'
    <3>1. ~(Shows /\ Whole)
      BY <1>20, <2>1, ShownAlone DEF Agreed, Unlocked
    <3>2. ~(Shows' /\ Whole')
      BY <1>20, <3>1 DEF Save, Shows, Whole, Go, Leave, TypeOK
    <3> QED BY <3>2, ShownKept
  <2> QED BY <2>3, <2>4, <2>5 DEF Agreed
<1>21. ASSUME NEW a \in Requests \cup {Worker}, PurgeKey(a)
       PROVE  Agreed'
  <2>1. at[a] = "purge" /\ lock # a /\ torn' = TRUE /\ UNCHANGED <<row, lock>>
    BY <1>21 DEF PurgeKey, Located
  <2>2. \A b \in Actors : b # a => my'[b] = my[b]
    BY <1>21 DEF PurgeKey, TypeOK
  <2> QED BY <2>1, <2>2, DecidedKept, AgreedTorn DEF Agreed
<1>22. ASSUME NEW a \in Requests \cup {Worker}, PurgeRow(a)
       PROVE  Agreed'
  BY <1>22, <1>0
  DEF PurgeRow, Agreed, AclDecided, AclServed, AclUnderWay, AclShown, Whole, Shows,
      ProcessedImage, IsImage, Visible,
      Early, Waiting, InFlight, Located, TypeOK, Go, Leave, Unlocked, StorageKeys
<1>23. ASSUME NEW a \in Requests \cup {Sweep}, Die(a)
       PROVE  Agreed'
  <2>1. /\ lock # a /\ Leave(a) /\ UNCHANGED <<row, objects, lock, torn, shown>>
        /\ at[a] \notin {"show", "flag"} /\ a # Worker
    BY <1>23 DEF Die
  <2> QED BY <1>23, <2>1, AgreedKept DEF Whole, Shows, Leave, TypeOK
<1>24. ASSUME StartJob
       PROVE  Agreed'
  <2>1. /\ at[Worker] = "idle" /\ lock # Worker /\ UNCHANGED <<row, objects, lock, torn>>
        /\ Whole' => Whole /\ ~Shows
    BY <1>24 DEF StartJob, Located, Whole, Crossed
  <2>2. \A a \in Actors : a # Worker => my'[a] = my[a] /\ at'[a] = at[a]
    BY <1>24 DEF StartJob, Go, TypeOK
  <2> QED BY <2>1, <2>2, AgreedKept
<1>25. ASSUME Replace
       PROVE  Agreed'
  <2>1. at[Worker] = "replace" /\ at'[Worker] = "derive" /\ lock # Worker
        /\ UNCHANGED <<row, lock, torn, shown, my>>
    BY <1>25 DEF Replace, Go, TypeOK, Located
  <2>2. AclShown'
    <3>1. ~(Shows /\ Whole)
      BY <2>1, ShownAlone DEF Agreed, Unlocked
    <3>2. ~(Shows' /\ Whole')
      BY <1>25, <3>1 DEF Replace, Shows, Whole, Go, Leave, TypeOK
    <3> QED BY <3>2, ShownKept
  <2> QED BY <2>1, <2>2, DecidedKept DEF Agreed, AclServed, AclUnderWay, Whole
<1>26. ASSUME Derive
       PROVE  Agreed'
  <2>1. at[Worker] = "derive" /\ at'[Worker] = "finish" /\ lock # Worker
        /\ UNCHANGED <<row, lock, torn, shown, my>>
    BY <1>26 DEF Derive, Go, TypeOK, Located
  <2>2. AclShown'
    <3>1. ~(Shows /\ Whole)
      BY <2>1, ShownAlone DEF Agreed, Unlocked
    <3>2. ~(Shows' /\ Whole')
      BY <1>26, <3>1 DEF Derive, Shows, Whole, Go, Leave, TypeOK
    <3> QED BY <3>2, ShownKept
  <2> QED BY <2>1, <2>2, DecidedKept DEF Agreed, AclServed, AclUnderWay, Whole
<1>27. ASSUME Finish
       PROVE  Agreed'
  BY <1>27, <1>0
  DEF Finish, Agreed, AclDecided, AclServed, AclUnderWay, AclShown, Whole, Shows,
      ProcessedImage, IsImage, Visible,
      Early, Waiting, InFlight, Located, TypeOK, Go, Leave, Unlocked, StorageKeys
<1>28. ASSUME JobFails
       PROVE  Agreed'
  <2>1. torn' = TRUE /\ row' = row /\ lock' = IF lock = Worker THEN None ELSE lock
    BY <1>28 DEF JobFails
  <2>2. \A b \in Actors : b # Worker => my'[b] = my[b]
    BY <1>28 DEF JobFails, Leave, TypeOK
  <2> QED BY <2>1, <2>2, DecidedKept, AgreedTorn DEF Agreed
<1>29. ASSUME MarkFailed
       PROVE  Agreed'
  BY <1>29, <1>0, StatusUpdated
  DEF MarkFailed, Agreed, AclDecided, AclServed, AclUnderWay, AclShown, Whole, Shows,
      ProcessedImage, IsImage, Visible,
      Early, Waiting, InFlight, Located, TypeOK, Go, Leave, Unlocked, StorageKeys
<1>30. ASSUME WorkerDies
       PROVE  Agreed'
  <2>1. torn' = TRUE /\ row' = row /\ lock' = IF lock = Worker THEN None ELSE lock
    BY <1>30 DEF WorkerDies
  <2>2. \A b \in Actors : b # Worker => my'[b] = my[b]
    BY <1>30 DEF WorkerDies, Leave, TypeOK
  <2> QED BY <2>1, <2>2, DecidedKept, AgreedTorn DEF Agreed
<1>31. ASSUME FindAbandoned
       PROVE  Agreed'
  BY <1>31, <1>0
  DEF FindAbandoned, Agreed, AclDecided, AclServed, AclUnderWay, AclShown, Whole, Shows,
      ProcessedImage, IsImage,
      Visible, Early, Waiting, InFlight, Located, TypeOK, Go, Leave, Unlocked, StorageKeys
<1>32. ASSUME RemoveAbandoned
       PROVE  Agreed'
  BY <1>32, <1>0
  DEF RemoveAbandoned, Agreed, AclDecided, AclServed, AclUnderWay, AclShown, Whole, Shows,
      ProcessedImage, IsImage,
      Visible, Early, Waiting, InFlight, Located, TypeOK, Go, Leave, Unlocked, StorageKeys
<1>33. ASSUME RemoveObjects
       PROVE  Agreed'
  BY <1>33, <1>0
  DEF RemoveObjects, Agreed, AclDecided, AclServed, AclUnderWay, AclShown, Whole, Shows,
      ProcessedImage, IsImage,
      Visible, Early, Waiting, InFlight, Located, TypeOK, Go, Leave, Unlocked, StorageKeys
<1>34. ASSUME Initiate
       PROVE  Agreed'
  BY <1>34, <1>0
  DEF Initiate, Agreed, AclDecided, AclServed, AclUnderWay, AclShown, Whole, Shows,
      ProcessedImage, IsImage, Visible,
      Early, Waiting, InFlight, Located, TypeOK, Go, Leave, Unlocked, StorageKeys, Fresh, New
<1>35. ASSUME UploadAttachment
       PROVE  Agreed'
  <2>1. PICK file \in Files, content \in Contents, isPublic \in BOOLEAN :
          LET image == file.mimetype \in Images
              stored == IF image THEN Prepare(content) ELSE content
          IN  /\ objects' = [objects EXCEPT
                   !["file"] = [content |-> stored, public |-> isPublic],
                   !["thumbnail"] = IF image
                                    THEN [content |-> Thumbnail(stored), public |-> isPublic]
                                    ELSE None]
              /\ row' = New(file, "completed", isPublic, image)
    BY <1>35 DEF UploadAttachment
  <2> DEFINE image == file.mimetype \in Images
             stored == IF image THEN Prepare(content) ELSE content
  <2>2. stored \in Stored /\ Thumbnail(stored) \in Stored
    <3>1. stored \in Stored
      BY Stripping, StoredFacts DEF Stored
    <3> QED BY <3>1, Stripping, StoredFacts
  <2>3. /\ objects'["file"] = [content |-> stored, public |-> isPublic]
        /\ image => objects'["thumbnail"] = [content |-> Thumbnail(stored), public |-> isPublic]
    BY <1>0, <1>35, <2>1 DEF UploadAttachment, Fresh
  <2>4. lock' = None
    <3>1. \A a \in Actors : at[a] = "idle"
      BY <1>35 DEF UploadAttachment, Fresh
    <3>2. lock = None
      BY <3>1 DEF TypeOK, Located
    <3> QED BY <1>35, <3>2 DEF UploadAttachment
  <2>5. row'.isPublic = isPublic /\ ~row'.deleted /\ row'.derived = image
    BY <2>1 DEF New
  <2> HIDE DEF image, stored
  <2>6. Visible(StorageKeys(row), isPublic)'
    <3>1. objects'["file"] # None /\ objects'["file"].public = isPublic
      BY <2>2, <2>3, StoredObject
    <3>2. image => objects'["thumbnail"] # None /\ objects'["thumbnail"].public = isPublic
      BY <2>2, <2>3, StoredObject
    <3> QED BY <2>5, <3>1, <3>2 DEF Visible, StorageKeys
  <2>7. AclServed'
    BY <2>5, <2>6 DEF AclServed, Visible
  <2>8. AclShown'
    BY <1>35 DEF UploadAttachment, Fresh, AclShown
  <2> QED BY <2>4, <2>7, <2>8 DEF Agreed, AclDecided, AclUnderWay
<1>36. ASSUME UploadAttachmentAsync
       PROVE  Agreed'
  BY <1>36, <1>0
  DEF UploadAttachmentAsync, Agreed, AclDecided, AclServed, AclUnderWay, AclShown, Whole,
      Shows, ProcessedImage,
      IsImage, Visible, Early, Waiting, InFlight, Located, TypeOK, Go, Leave, Unlocked,
      StorageKeys, Fresh, New
<1>37. ASSUME Post
       PROVE  Agreed'
  <2>1. PICK content \in Contents :
          objects' = [objects EXCEPT !["incoming"] = [content |-> content, public |-> FALSE]]
    BY <1>37 DEF Post, Put
  <2>2. objects'["file"] = objects["file"] /\ objects'["thumbnail"] = objects["thumbnail"]
    BY <1>0, <2>1 DEF TypeOK
  <2> QED BY <1>37, <2>2, AgreedKept DEF Post, Whole
<1>38. ASSUME Age
       PROVE  Agreed'
  BY <1>38, <1>0
  DEF Age, Agreed, AclDecided, AclServed, AclUnderWay, AclShown, Whole, Shows,
      ProcessedImage, IsImage, Visible, Early,
      Waiting, InFlight, Located, TypeOK, Go, Leave, Unlocked, StorageKeys
<1>39. ASSUME ServeLate
       PROVE  Agreed'
  <2>1. late # {} /\ UNCHANGED <<row, lock, torn, my>>
    BY <1>39 DEF ServeLate
  <2>2. torn'
    BY <2>1 DEF Early
  <2> QED BY <2>1, <2>2, DecidedKept, AgreedTorn DEF Agreed
<1>40. ASSUME UNCHANGED vars
      PROVE  Agreed'
  BY <1>40
  DEF vars, Agreed, AclDecided, AclServed, AclUnderWay, AclShown, Whole, Shows, ProcessedImage,
      IsImage, Visible, Saved, StorageKeys, Unlocked
<1>41. ASSUME NEW q \in Showing, AskMainImage(q)
       PROVE  Agreed'
  <2>1. /\ at[q] = "idle" /\ lock # q /\ row # None /\ ~row.deleted
        /\ UNCHANGED <<row, objects, lock>>
        /\ Whole' => Whole /\ Unlocked /\ at[Worker] = "idle"
    BY <1>41 DEF AskMainImage, Located, Whole, Crossed
  <2>2. /\ at'[q] = "show" /\ my'[q].keys = StorageKeys(row)
        /\ \A b \in Actors : b # q => at'[b] = at[b] /\ my'[b] = my[b]
    BY <1>41 DEF AskMainImage, Go, TypeOK, Locals
  <2>3. AclDecided'
    BY <2>1, <2>2, DecidedKept DEF Agreed
  <2>4. AclServed' /\ AclUnderWay'
    BY <2>1, <2>2 DEF AclServed, AclUnderWay, Shows, Unlocked
  <2>5. AclShown'
    BY <2>1, <2>2 DEF Agreed, AclShown, Unlocked, Visible, StorageKeys
  <2> QED BY <2>3, <2>4, <2>5 DEF Agreed
<1>42. ASSUME NEW q \in Showing, ShowImage(q)
       PROVE  Agreed'
  <2>0. PICK key : key = NextShown(q)
    OBVIOUS
  <2>1. /\ key \in Keys /\ at[q] = "show" /\ lock # q /\ objects[key] # None
        /\ objects' = [objects EXCEPT ![key].public = TRUE]
        /\ UNCHANGED <<row, lock, torn, shown>>
    BY <1>0, <1>42, <2>0 DEF ShowImage, NextShown, Located
  <2>2. /\ at'[q] \in {"show", "flag"} /\ my'[q].keys = my[q].keys \ {key}
        /\ \A b \in Actors : b # q => at'[b] = at[b] /\ my'[b] = my[b]
    BY <1>42, <2>0 DEF ShowImage, Go, TypeOK, Locals
  <2>3. /\ \A k \in Keys : k # key => objects'[k] = objects[k]
        /\ objects'[key] # None /\ objects'[key].public
    BY <2>1, MadePublic DEF TypeOK
  <2>4. AclDecided'
    BY <2>1, <2>2, DecidedKept DEF Agreed
  <2>5. Whole' => Whole /\ Unlocked
    BY <2>1, ShownAlone DEF Agreed, Shows, Whole
  <2>6. AclServed' /\ AclUnderWay'
    BY <2>1, <2>2, <2>5 DEF AclServed, AclUnderWay, Shows, Unlocked
  <2>7. AclShown'
    <3>1. SUFFICES ASSUME NEW r \in Requests, at'[r] \in {"show", "flag"}, Whole'
                   PROVE  /\ lock = None /\ at'[Worker] = "idle"
                          /\ row # None => /\ ~row.deleted
                                           /\ Visible(StorageKeys(row) \ my[r].keys, TRUE)'
      BY <2>1 DEF AclShown, Unlocked
    <3>2. /\ lock = None /\ at[Worker] = "idle"
          /\ row # None => ~row.deleted /\ Visible(StorageKeys(row) \ my[r].keys, TRUE)
      BY <2>1, <2>2, <2>5, <3>1 DEF Agreed, AclShown, Unlocked
    <3>3. StorageKeys(row) \subseteq Keys
      BY <1>0 DEF StorageKeys
    <3> QED BY <2>1, <2>2, <2>3, <3>2, <3>3 DEF Visible, StorageKeys
  <2> QED BY <2>4, <2>6, <2>7 DEF Agreed
<1>43. ASSUME NEW q \in Showing, FlagImage(q)
       PROVE  Agreed'
  <2>1. /\ at[q] = "flag" /\ lock = None /\ Leave(q) /\ my[q].keys = {}
        /\ row' = IF row = None THEN None ELSE [row EXCEPT !.isPublic = TRUE]
        /\ UNCHANGED <<objects, lock, torn, shown>>
    BY <1>43 DEF FlagImage, Unlocked, Located
  <2>2. row # None => /\ row'.declared = row.declared /\ row'.isPublic
                      /\ row'.deleted = row.deleted /\ row'.derived = row.derived
                      /\ row'.securityStatus = row.securityStatus
    BY <2>1 DEF TypeOK, Row
  <2>3. row' # None => row # None
    BY <2>1
  <2>4. \A b \in Actors : b # q => at'[b] = at[b] /\ my'[b] = my[b]
    BY <2>1 DEF Leave, TypeOK
  <2>5. AclDecided' /\ AclUnderWay'
    BY <2>1 DEF AclDecided, AclUnderWay
  <2>6. AclServed'
    <3>1. SUFFICES ASSUME ProcessedImage', Whole'
                   PROVE  Visible(StorageKeys(row), row.isPublic /\ ~row.deleted)'
      BY DEF AclServed
    <3>2. row # None /\ ~row.deleted /\ Visible(StorageKeys(row) \ my[q].keys, TRUE)
      BY <2>1, <2>3, <3>1 DEF ProcessedImage, Agreed, AclShown, Whole
    <3>3. StorageKeys(row)' = StorageKeys(row) \ my[q].keys
      BY <2>1, <2>2, <3>2 DEF StorageKeys
    <3> QED BY <2>1, <2>2, <3>2, <3>3 DEF Visible
  <2>7. AclShown'
    <3>1. SUFFICES ASSUME NEW r \in Requests, at'[r] \in {"show", "flag"}, Whole'
                   PROVE  /\ at'[Worker] = "idle"
                          /\ row' # None => /\ ~row'.deleted
                                            /\ Visible(StorageKeys(row) \ my[r].keys, TRUE)'
      BY <2>1 DEF AclShown, Unlocked
    <3>2. r # q
      BY <2>1, <3>1 DEF Leave, TypeOK
    <3>3. /\ at[Worker] = "idle"
          /\ row # None => ~row.deleted /\ Visible(StorageKeys(row) \ my[r].keys, TRUE)
      BY <2>1, <2>4, <3>1, <3>2 DEF Agreed, AclShown, Whole
    <3> QED BY <2>1, <2>2, <2>3, <2>4, <3>2, <3>3 DEF Visible, StorageKeys
  <2> QED BY <2>5, <2>6, <2>7 DEF Agreed
<1>44. ASSUME NEW q \in Showing, GiveUpImage(q)
       PROVE  Agreed'
  <2>1. lock # q /\ torn' = TRUE /\ UNCHANGED <<row, lock>>
    BY <1>44 DEF GiveUpImage, Located
  <2>2. \A b \in Actors : b # q => my'[b] = my[b]
    BY <1>44 DEF GiveUpImage, Leave, TypeOK
  <2> QED BY <2>1, <2>2, DecidedKept, AgreedTorn DEF Agreed
<1> QED BY <1>1, <1>2, <1>3, <1>4, <1>5, <1>6, <1>7, <1>8, <1>9, <1>10, <1>11, <1>12, <1>13,
           <1>14, <1>15, <1>16, <1>17, <1>18, <1>19, <1>20, <1>21, <1>22, <1>23, <1>24, <1>25,
           <1>26, <1>27, <1>28, <1>29, <1>30, <1>31, <1>32, <1>33, <1>34, <1>35, <1>36, <1>37,
           <1>38, <1>39, <1>40, <1>41, <1>42, <1>43, <1>44
     DEF Next, CompleteStep, OwnerStep, ImageStep, LockedStep, PurgeStep, WorkerStep, SweepStep

-----------------------------------------------------------------------------
(* The theorems. *)

IInv == TypeOK /\ Located /\ Early /\ Verified /\ Agreed

LEMMA Invariant == Spec => []IInv
<1>1. Init => IInv
  BY TypeInit, LocatedInit, EarlyInit, VerifiedInit, AgreedInit DEF IInv
<1>2. IInv /\ [Next]_vars => IInv'
  BY TypeStep, LocatedStep, EarlyStep, VerifiedStep, AgreedStep DEF IInv
<1> QED BY <1>1, <1>2, PTL DEF Spec

\* Row, objects, job, late calls and what every actor holds keep their types; the row
\* that is saved under its lock is still there.
THEOREM TypeCorrect == Spec => []TypeOK
<1>1. IInv => TypeOK
  BY DEF IInv
<1> QED BY <1>1, Invariant, PTL

\* An image that carries its metadata is never public, whoever posts, checks, processes,
\* publishes, deletes and restores it in whichever order, and whichever of them fail;
\* only the file that updateMainImage of stories took before it was processed may be.
THEOREM RawIsPrivate == Spec => []RawStaysPrivate
<1>1. IInv => RawStaysPrivate
  BY DEF IInv, Verified, Private, Clean, CleanOrShown, RawStaysPrivate, Keys
<1> QED BY <1>1, Invariant, PTL

\* A completed row serves what its declared type was checked against, without metadata;
\* only a removal that broke off leaves it without a file.
THEOREM CompletedIsChecked == Spec => []CompletedIsVerified
<1>1. IInv => CompletedIsVerified
  BY DEF IInv, Verified, Stripped, RowVerified, FileVerified, Clean, CompletedIsVerified,
         Unchecked
<1> QED BY <1>1, Invariant, PTL

\* Between changes that came to their end the objects of a processed image have the
\* visibility of its row, main images of stories included, unless updateMainImage - which
\* takes no lock - met another change since the last one that gave every object its own.
THEOREM AccessFollows == Spec => []AclFollowsRow
<1>1. IInv => AclFollowsRow
  BY DEF IInv, Agreed, AclServed, ProcessedImage, Visible, Whole, AclFollowsRow, Quiet,
         ServedAsFlagged
<1> QED BY <1>1, Invariant, PTL

\* No upload that is valid as a whole is rejected for the place where its head was cut.
THEOREM RejectedAreInvalid == Spec => OnlyInvalidRejected
<1> DEFINE Rejection == \A q \in Requests : at[q] = "sniff" /\ at'[q] = "reject" =>
                          ~ContentValid(row.declared, my[q].content, FALSE)
<1>1. ASSUME IInv, [Next]_vars
      PROVE  [Rejection]_vars
  <2> SUFFICES ASSUME NEW q \in Requests, at[q] = "sniff", at'[q] = "reject",
                      ContentValid(row.declared, my[q].content, FALSE)
               PROVE  FALSE
    OBVIOUS
  <2> USE ActorFacts
  <2>1. SniffContent(q)
    <3>1. at \in [Actors -> Places] /\ at'[q] # at[q]
      BY <1>1 DEF IInv, TypeOK
    <3>2. ASSUME NEW r \in Completing, CompleteStep(r)
          PROVE  SniffContent(q)
      <4>1. r = q
        BY <3>1, <3>2 DEF CompleteStep, AskComplete, Claim, HeadObject, SniffContent,
           CopyIfUnchanged, DropUpload, Publish, Commit, Reopen, Unclaim, RejectKeys,
           RejectRow, CompleteFails, Go, Leave
      <4> QED BY <3>1, <3>2, <4>1
          DEF CompleteStep, AskComplete, Claim, HeadObject, CopyIfUnchanged, DropUpload,
              Publish, Commit, Reopen, Unclaim, RejectKeys, RejectRow, CompleteFails, Go
    <3>3. ASSUME NEW r \in Changing, OwnerStep(r)
          PROVE  FALSE
      BY <3>1, <3>3 DEF OwnerStep, AskChange, GiveUpChange, AskHardDelete, Go, Leave
    <3>4. ASSUME NEW a \in Actors, LockedStep(a) \/ PurgeStep(a) \/ Die(a)
          PROVE  FALSE
      BY <3>1, <3>4 DEF LockedStep, PurgeStep, LockRow, LockNothing, SetAcl, Save, PurgeKey,
         PurgeRow, Die, Go, Leave
    <3>5. ASSUME WorkerStep \/ SweepStep
          PROVE  FALSE
      BY <3>1, <3>5 DEF WorkerStep, SweepStep, StartJob, Replace, Derive, Finish, JobFails,
         MarkFailed, WorkerDies, FindAbandoned, RemoveAbandoned, RemoveObjects, Go, Leave
    <3>6. ASSUME \/ Initiate \/ UploadAttachment \/ UploadAttachmentAsync
                 \/ Post \/ Age \/ ServeLate \/ UNCHANGED vars
          PROVE  FALSE
      BY <3>1, <3>6
      DEF Initiate, UploadAttachment, UploadAttachmentAsync, Post, Age, ServeLate, vars
    <3>7. ASSUME NEW r \in Showing, ImageStep(r)
          PROVE  FALSE
      BY <3>1, <3>7 DEF ImageStep, AskMainImage, ShowImage, FlagImage, GiveUpImage, Go, Leave
    <3> QED BY <1>1, <3>2, <3>3, <3>4, <3>5, <3>6, <3>7 DEF Next
  <2>2. ~BeginsValid(row.declared, my[q].content)
    BY <1>1, <2>1 DEF SniffContent, Go, IInv, TypeOK
  <2>3. my[q].content \in Stored
    BY <1>1 DEF IInv, Verified, RequestCopy
  <2> QED BY <2>2, <2>3, ValidBegins
<1>2. IInv /\ [Next]_vars => [Rejection]_vars
  BY <1>1
<1>3. Spec => [][Rejection]_vars
  BY <1>2, Invariant, PTL DEF Spec
<1> QED BY <1>3 DEF OnlyInvalidRejected

=============================================================================
