---------------------------- MODULE ArticleBase ----------------------------
(***************************************************************************)
(* The articles of the legacy server on disk (src/article.cpp and          *)
(* getArticleID() of src/clienthandler.cpp): one folder per article with   *)
(* the files info, context, response and blacklist, and the file           *)
(* articles.cfg with the last article number given out.                    *)
(*                                                                         *)
(* Every operation is a sequence of writes.  Each one is given as what is  *)
(* on disk when it is complete, as what may be there when the process      *)
(* stops before its end, and, where the code goes on after a write that    *)
(* failed, as what is there then.  A line is one write: it is in its file  *)
(* or not.                                                                 *)
(***************************************************************************)
EXTENDS Names, Naturals

CONSTANTS
  Body,      \* contents of articles
  TornInfo,  \* an info file that was cut short
  TornBody,  \* a context file that was cut short
  NoFile,    \* "the folder has no such file"
  NoFolder,  \* "there is no such folder"
  NoNumber,  \* articles.cfg is empty
  DiskFails, \* whether writes may fail
  MaxAid     \* bound: articles numbered in a behaviour

ASSUME MaxAidAssumption == MaxAid \in Nat

ASSUME NoNumberAssumption == NoNumber \notin Nat

Aid == 1..MaxAid

\* Title and date of info are left out; the blacklist is a set, as its only
\* readers search it and a missing file reads as an empty one.
Folder ==
  [info: Uid \cup {TornInfo, NoFile},
   context: Body \cup {TornBody, NoFile},
   response: (SUBSET Uid) \cup {NoFile},
   blacklist: SUBSET Uid]

ASSUME NoFolderAssumption == NoFolder \notin Folder

ASSUME NoFileAssumption ==
  /\ NoFile \notin Uid \cup Body \cup {TornInfo, TornBody}
  /\ TornInfo \notin Uid
  /\ \A ids \in SUBSET Uid : NoFile # ids

VARIABLES
  folder,         \* the folders under ARTICLE_BASE
  articles_cfg,   \* what the file articles.cfg says
  MAXARTICLEID    \* the number in memory

diskVars == <<folder, articles_cfg>>
articleVars == <<diskVars, MAXARTICLEID>>

ArticlesType ==
  /\ folder \in [Aid -> Folder \cup {NoFolder}]
  /\ articles_cfg \in 0..MaxAid \cup {NoNumber}
  /\ MAXARTICLEID \in 0..MaxAid

-----------------------------------------------------------------------------
exists(aid) == aid \in Aid /\ folder[aid] # NoFolder

\* Articleheader's constructor throws for a folder without info, and for one
\* whose info ends too early: what failed to be read is caught, but close() is
\* then called twice, and the second call throws.  Article::init() also throws
\* for a folder without context.
headerReadable(aid) == exists(aid) /\ folder[aid].info \in Uid
loadable(aid) == headerReadable(aid) /\ folder[aid].context # NoFile

\* Definitions named <operation>_<bug> are mutated forms of the operation below
\* them, each with a bug one might make there; no specification uses them.

getArticleID_notSaved ==
  /\ MAXARTICLEID < MaxAid
  /\ MAXARTICLEID' = MAXARTICLEID + 1
  /\ UNCHANGED <<articles_cfg, folder>>

getArticleID_mkdir ==
  /\ MAXARTICLEID < MaxAid
  /\ MAXARTICLEID' = MAXARTICLEID + 1
  /\ articles_cfg' = MAXARTICLEID + 1
  /\ folder' = [folder EXCEPT ![MAXARTICLEID + 1] =
                  [info |-> NoFile, context |-> NoFile, response |-> NoFile, blacklist |-> {}]]

\* getArticleID(): articles.cfg is truncated, then the next number is written.
getArticleID ==
  /\ MAXARTICLEID < MaxAid
  /\ MAXARTICLEID' = MAXARTICLEID + 1
  /\ articles_cfg' = MAXARTICLEID + 1
  /\ UNCHANGED folder

\* The number does not reach the file, which is open and empty; nobody looks at
\* what fprintf() and fclose() return.
getArticleIDFailed ==
  /\ DiskFails /\ MAXARTICLEID < MaxAid
  /\ MAXARTICLEID' = MAXARTICLEID + 1
  /\ articles_cfg' = NoNumber
  /\ UNCHANGED folder

getArticleIDStopped == articles_cfg' \in {NoNumber, MAXARTICLEID + 1} /\ UNCHANGED folder

setMaxartileID_unchecked == MAXARTICLEID' = articles_cfg

\* setMaxartileID() of a fresh process: fscanf() leaves the initial 0 alone if
\* the file is empty.
setMaxartileID == MAXARTICLEID' = IF articles_cfg = NoNumber THEN 0 ELSE articles_cfg

\* Article::store(): mkdir, then info, context and response, in this order.
Complete(pid, body) == [info |-> pid, context |-> body, response |-> {}, blacklist |-> {}]

\* A write to info that failed is caught, and context is written all the same.
Begun(pid, body) ==
  LET left(i, c) == [info |-> i, context |-> c, response |-> NoFile, blacklist |-> {}]
  IN  {left(NoFile, NoFile), left(TornInfo, NoFile)}
        \cup {left(pid, c) : c \in {NoFile, TornBody, body}}
        \cup {left(TornInfo, c) : c \in IF DiskFails THEN {TornBody, body} ELSE {}}

store_overwrites(aid, pid, body) ==
  folder' = [folder EXCEPT ![aid] = Complete(pid, body)]

store_lastNumber(aid, pid, body) ==
  folder' = IF exists(MAXARTICLEID) THEN folder
            ELSE [folder EXCEPT ![MAXARTICLEID] = Complete(pid, body)]

\* mkdir() fails if the folder is there: nothing is stored.
store(aid, pid, body) ==
  folder' = IF exists(aid) THEN folder ELSE [folder EXCEPT ![aid] = Complete(pid, body)]

\* mkdir() fails and nothing is stored, or a write to info or context fails,
\* which is caught: the rest is written, and the folder stays as it is.
storeFailed(aid, pid, body) ==
  /\ DiskFails
  /\ \/ UNCHANGED folder
     \/ \E i \in {pid, TornInfo}, c \in {body, TornBody} : store(aid, i, c)

\* The process stops, or a file does not open: what that throws passes the
\* handler of const char*.
storeStopped(aid, pid, body) ==
  /\ ~exists(aid)
  /\ \E f \in Begun(pid, body) : folder' = [folder EXCEPT ![aid] = f]

addResponse_truncates(aid, id) == folder' = [folder EXCEPT ![aid].response = {id}]

\* A line appended to response, which is created if need be.
addResponse(aid, id) ==
  folder' = [folder EXCEPT ![aid].response = IF @ = NoFile THEN {id} ELSE @ \cup {id}]

\* The file is opened, which creates it, and nothing is written.
addResponseStopped(aid) ==
  folder' = [folder EXCEPT ![aid].response = IF @ = NoFile THEN {} ELSE @]

appendBlacklist(aid, bid) == folder' = [folder EXCEPT ![aid].blacklist = @ \cup {bid}]

removefromBlacklist_forgetsOthers(aid, bid) == folder' = [folder EXCEPT ![aid].blacklist = {}]

\* removefromBlacklist() truncates the file and writes the others back.
removefromBlacklist(aid, bid) == folder' = [folder EXCEPT ![aid].blacklist = @ \ {bid}]

removefromBlacklistStopped(aid, bid) ==
  \E kept \in SUBSET (folder[aid].blacklist \ {bid}) :
    folder' = [folder EXCEPT ![aid].blacklist = kept]

=============================================================================
