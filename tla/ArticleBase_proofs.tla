------------------------ MODULE ArticleBase_proofs ------------------------
(***************************************************************************)
(* What each operation on the articles keeps, complete or not, for every   *)
(* set of names and texts and any number of articles.                      *)
(***************************************************************************)
EXTENDS ArticleBase, TLAPS

FoldersType == folder \in [Aid -> Folder \cup {NoFolder}]

\* No folder is taken away, and no publisher and no text.
Kept ==
  \A n \in Aid : exists(n) =>
    /\ folder'[n] # NoFolder
    /\ folder'[n].info = folder[n].info
    /\ folder'[n].context = folder[n].context

\* No folder is there that was not there before, but that of aid.
NoneNew == \A n \in Aid : exists(n)' => exists(n)
NoneNewBut(aid) == \A n \in Aid \ {aid} : exists(n)' => exists(n)

LEMMA FolderOf ==
  ASSUME FoldersType, NEW aid, exists(aid)
  PROVE  aid \in Aid /\ folder[aid] \in Folder
BY DEF FoldersType, exists

\* What can be listed and loaded stays so.
LEMMA KeptReadable ==
  ASSUME Kept, NEW aid
  PROVE  /\ exists(aid) => exists(aid)'
         /\ headerReadable(aid) => headerReadable(aid)'
         /\ loadable(aid) => loadable(aid)'
BY DEF Kept, exists, headerReadable, loadable

LEMMA UnchangedFolders ==
  ASSUME FoldersType, UNCHANGED folder
  PROVE  FoldersType' /\ Kept /\ NoneNew
BY DEF FoldersType, Kept, NoneNew, exists

\* A folder that is there is given other responses, or another blacklist.
LEMMA ResponseChanged ==
  ASSUME FoldersType, NEW aid, exists(aid), NEW r \in (SUBSET Uid) \cup {NoFile},
         folder' = [folder EXCEPT ![aid].response = r]
  PROVE  FoldersType' /\ Kept /\ NoneNew
<1>1. aid \in Aid /\ folder[aid] \in Folder
  BY FolderOf
<1>2. [folder[aid] EXCEPT !.response = r] \in Folder
  BY <1>1 DEF Folder
<1>3. folder' = [folder EXCEPT ![aid] = [folder[aid] EXCEPT !.response = r]]
  BY <1>1 DEF FoldersType
<1>4. FoldersType'
  BY <1>1, <1>2, <1>3 DEF FoldersType
<1>5. /\ folder'[aid] # NoFolder
      /\ folder'[aid].info = folder[aid].info /\ folder'[aid].context = folder[aid].context
  BY <1>1, <1>2, <1>3, NoFolderAssumption DEF FoldersType, Folder
<1>6. \A n \in Aid \ {aid} : folder'[n] = folder[n]
  BY <1>1, <1>3 DEF FoldersType
<1>. QED
  BY <1>4, <1>5, <1>6 DEF Kept, NoneNew, exists

LEMMA BlacklistChanged ==
  ASSUME FoldersType, NEW aid, exists(aid), NEW b \in SUBSET Uid,
         folder' = [folder EXCEPT ![aid].blacklist = b]
  PROVE  FoldersType' /\ Kept /\ NoneNew
<1>1. aid \in Aid /\ folder[aid] \in Folder
  BY FolderOf
<1>2. [folder[aid] EXCEPT !.blacklist = b] \in Folder
  BY <1>1 DEF Folder
<1>3. folder' = [folder EXCEPT ![aid] = [folder[aid] EXCEPT !.blacklist = b]]
  BY <1>1 DEF FoldersType
<1>4. FoldersType'
  BY <1>1, <1>2, <1>3 DEF FoldersType
<1>5. /\ folder'[aid] # NoFolder
      /\ folder'[aid].info = folder[aid].info /\ folder'[aid].context = folder[aid].context
  BY <1>1, <1>2, <1>3, NoFolderAssumption DEF FoldersType, Folder
<1>6. \A n \in Aid \ {aid} : folder'[n] = folder[n]
  BY <1>1, <1>3 DEF FoldersType
<1>. QED
  BY <1>4, <1>5, <1>6 DEF Kept, NoneNew, exists

LEMMA AddResponse ==
  ASSUME FoldersType, NEW aid, exists(aid), NEW id \in Uid,
         addResponse(aid, id) \/ addResponseStopped(aid)
  PROVE  FoldersType' /\ Kept /\ NoneNew
<1>1. aid \in Aid /\ folder[aid] \in Folder
  BY FolderOf
<1>2. folder[aid].response \in (SUBSET Uid) \cup {NoFile}
  BY <1>1 DEF Folder
<1>3. CASE addResponse(aid, id)
  <2>1. (IF folder[aid].response = NoFile THEN {id} ELSE folder[aid].response \cup {id})
          \in (SUBSET Uid) \cup {NoFile}
    BY <1>2
  <2>2. folder' = [folder EXCEPT ![aid].response =
                     IF folder[aid].response = NoFile THEN {id} ELSE folder[aid].response \cup {id}]
    BY <1>1, <1>3 DEF addResponse, FoldersType
  <2>3. QED
    BY <2>1, <2>2, ResponseChanged
<1>4. CASE addResponseStopped(aid)
  <2>1. (IF folder[aid].response = NoFile THEN {} ELSE folder[aid].response) \in (SUBSET Uid) \cup {NoFile}
    BY <1>2
  <2>2. folder' = [folder EXCEPT ![aid].response =
                     IF folder[aid].response = NoFile THEN {} ELSE folder[aid].response]
    BY <1>1, <1>4 DEF addResponseStopped, FoldersType
  <2>3. QED
    BY <2>1, <2>2, ResponseChanged
<1>. QED
  BY <1>3, <1>4

LEMMA Blacklisting ==
  ASSUME FoldersType, NEW aid, exists(aid), NEW bid,
         \/ bid \in Uid /\ appendBlacklist(aid, bid)
         \/ removefromBlacklist(aid, bid)
         \/ removefromBlacklistStopped(aid, bid)
  PROVE  FoldersType' /\ Kept /\ NoneNew
<1>1. aid \in Aid /\ folder[aid] \in Folder
  BY FolderOf
<1>2. folder[aid].blacklist \in SUBSET Uid
  BY <1>1 DEF Folder
<1>3. CASE bid \in Uid /\ appendBlacklist(aid, bid)
  <2>1. folder' = [folder EXCEPT ![aid].blacklist = folder[aid].blacklist \cup {bid}]
    BY <1>1, <1>3 DEF appendBlacklist, FoldersType
  <2>2. folder[aid].blacklist \cup {bid} \in SUBSET Uid
    BY <1>2, <1>3
  <2>3. QED
    BY <2>1, <2>2, BlacklistChanged
<1>4. CASE removefromBlacklist(aid, bid)
  <2>1. folder' = [folder EXCEPT ![aid].blacklist = folder[aid].blacklist \ {bid}]
    BY <1>1, <1>4 DEF removefromBlacklist, FoldersType
  <2>2. folder[aid].blacklist \ {bid} \in SUBSET Uid
    BY <1>2
  <2>3. QED
    BY <2>1, <2>2, BlacklistChanged
<1>5. CASE removefromBlacklistStopped(aid, bid)
  <2>1. PICK kept \in SUBSET (folder[aid].blacklist \ {bid}) :
          folder' = [folder EXCEPT ![aid].blacklist = kept]
    BY <1>5 DEF removefromBlacklistStopped
  <2>2. kept \in SUBSET Uid
    BY <1>2, <2>1
  <2>3. QED
    BY <2>1, <2>2, BlacklistChanged
<1>. QED
  BY <1>3, <1>4, <1>5

\* A folder is put where there was none.
LEMMA FolderAdded ==
  ASSUME FoldersType, NEW aid \in Aid, ~exists(aid), NEW f \in Folder,
         folder' = [folder EXCEPT ![aid] = f]
  PROVE  FoldersType' /\ Kept /\ NoneNewBut(aid) /\ folder'[aid] = f
<1>1. folder'[aid] = f /\ \A n \in Aid \ {aid} : folder'[n] = folder[n]
  BY DEF FoldersType
<1>2. FoldersType'
  BY DEF FoldersType
<1>. QED
  BY <1>1, <1>2 DEF Kept, NoneNewBut, exists

LEMMA StoreKeeps ==
  ASSUME FoldersType, NEW aid \in Aid, NEW pid \in Uid \cup {TornInfo},
         NEW body \in Body \cup {TornBody}, store(aid, pid, body)
  PROVE  /\ FoldersType' /\ Kept /\ NoneNewBut(aid)
         /\ pid \in Uid /\ ~exists(aid) => headerReadable(aid)'
<1>1. Complete(pid, body) \in Folder
  BY DEF Complete, Folder
<1>2. CASE exists(aid)
  BY <1>2, UnchangedFolders DEF store, NoneNew, NoneNewBut
<1>3. CASE ~exists(aid)
  <2>1. folder' = [folder EXCEPT ![aid] = Complete(pid, body)]
    BY <1>3 DEF store
  <2>2. /\ FoldersType' /\ Kept /\ NoneNewBut(aid)
        /\ folder'[aid] = Complete(pid, body)
    BY <1>1, <1>3, <2>1, FolderAdded
  <2>3. Complete(pid, body) # NoFolder /\ Complete(pid, body).info = pid
    BY <1>1, NoFolderAssumption DEF Complete
  <2>4. QED
    BY <2>2, <2>3 DEF headerReadable, exists
<1>. QED
  BY <1>2, <1>3

LEMMA StoreFailedKeeps ==
  ASSUME FoldersType, NEW aid \in Aid, NEW pid \in Uid, NEW body \in Body,
         storeFailed(aid, pid, body)
  PROVE  FoldersType' /\ Kept /\ NoneNewBut(aid)
<1>1. CASE UNCHANGED folder
  BY <1>1, UnchangedFolders DEF NoneNew, NoneNewBut
<1>2. CASE \E i \in {pid, TornInfo}, c \in {body, TornBody} : store(aid, i, c)
  <2>1. PICK i \in {pid, TornInfo}, c \in {body, TornBody} : store(aid, i, c)
    BY <1>2
  <2>2. QED
    BY <2>1, StoreKeeps
<1>. QED
  BY <1>1, <1>2 DEF storeFailed

LEMMA StoreStoppedKeeps ==
  ASSUME FoldersType, NEW aid \in Aid, NEW pid \in Uid, NEW body \in Body,
         storeStopped(aid, pid, body)
  PROVE  FoldersType' /\ Kept /\ NoneNewBut(aid)
<1>1. PICK f \in Begun(pid, body) : folder' = [folder EXCEPT ![aid] = f]
  BY DEF storeStopped
<1>2. \A i \in Uid \cup {TornInfo, NoFile}, c \in Body \cup {TornBody, NoFile} :
        [info |-> i, context |-> c, response |-> NoFile, blacklist |-> {}] \in Folder
  <2>1. NoFile \in (SUBSET Uid) \cup {NoFile} /\ {} \in SUBSET Uid
    OBVIOUS
  <2>2. QED
    BY <2>1 DEF Folder
<1>3. \E i \in Uid \cup {TornInfo, NoFile}, c \in Body \cup {TornBody, NoFile} :
        f = [info |-> i, context |-> c, response |-> NoFile, blacklist |-> {}]
  BY <1>1 DEF Begun
<1>4. f \in Folder
  BY <1>2, <1>3
<1>. QED
  BY <1>1, <1>4, FolderAdded DEF storeStopped

=============================================================================
