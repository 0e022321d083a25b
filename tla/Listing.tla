------------------------------ MODULE Listing -------------------------------
(***************************************************************************)
(* Listing a bucket page by page while objects come and go: ListObjects    *)
(* with paginateFlat, listWithDelimiter and effectiveStart.                *)
(*                                                                         *)
(* A key is its rank in the order of keys; a prefix is an interval of      *)
(* ranks.  With a delimiter, Folder gives the common prefix a key is under *)
(* (0: none).  A token is the key it was made from, 0 if there is none.    *)
(***************************************************************************)
EXTENDS Naturals, Sequences, FiniteSets, SequencesExt

CONSTANTS
    Ranks,       \* ranks of keys
    Low, High,   \* the keys with the prefix of the request are Low..High
    Folder,      \* key -> common prefix, 0 if the rest has no delimiter
    Requests     \* [startAfter, delimiter, maxKeys] of listing requests

ASSUME ListingAssumption ==
    /\ Ranks \subseteq Nat \ {0} /\ Folder \in [Ranks -> Nat]
    /\ Low \in Nat /\ High \in Nat
    /\ Requests \subseteq
         [startAfter : Nat, delimiter : BOOLEAN, maxKeys : Nat \ {0}]

VARIABLES
    request,   \* what the client asks for, the same for every page
    live,      \* keys with an object that is not deleted
    token,     \* the continuation token of the client's next request
    more,      \* will the client ask for another page?
    listed,    \* history: key -> on how many pages it was (2: two or more)
    folders,   \* history: common prefix -> on how many pages (2: two or more)
    steady     \* history: keys that were live since the listing began

listVars == <<request, live, token, more, listed, folders, steady>>

FolderNames == {Folder[k] : k \in Ranks} \ {0}

ListTypeOK ==
    /\ request \in Requests
    /\ live \subseteq Ranks /\ steady \subseteq live
    /\ token \in Ranks \cup {0} /\ more \in BOOLEAN
    /\ token # 0 => listed[token] > 0
    /\ listed \in [Ranks -> 0..2] /\ folders \in [FolderNames -> 0..2]

ListInit ==
    /\ request \in Requests
    /\ live \in SUBSET Ranks /\ steady = live
    /\ token = 0 /\ more = TRUE
    /\ listed = [k \in Ranks |-> 0] /\ folders = [f \in FolderNames |-> 0]

(* Where the SELECT starts, the key itself included: the start-after key,  *)
(* else the prefix.                                                        *)
effectiveStart == IF request.startAfter # 0 THEN request.startAfter ELSE Low

(* The rows of one SELECT that have the prefix and are not tombstones.     *)
Matching == {k \in live : k >= effectiveStart /\ k \in Low..High}

(* The keys that are listed themselves, not through a common prefix.       *)
Plain(all) == IF request.delimiter THEN {k \in all : Folder[k] = 0} ELSE all

(* Keys after the continuation token.                                      *)
After(all) == {k \in all : k > token}

(* The page is one longer than MaxKeys says.                               *)
MutantPage(all) ==
    LET from == SetToSortSeq(all, <)
    IN  [keys |-> SubSeq(from, 1, IF Len(from) <= request.maxKeys THEN Len(from)
                                  ELSE request.maxKeys + 1),
         truncated |-> request.maxKeys + 2 < Len(from)]

(* paginateFlat: the first MaxKeys of the keys that are left.              *)
Page(all) ==
    LET from == SetToSortSeq(all, <)
    IN  [keys |-> SubSeq(from, 1, IF Len(from) < request.maxKeys THEN Len(from)
                                  ELSE request.maxKeys),
         truncated |-> request.maxKeys < Len(from)]

NextContinuationToken(page) ==
    IF page.truncated THEN page.keys[Len(page.keys)] ELSE token

Seen(count, on) ==
    [x \in DOMAIN count |-> IF x \in on /\ count[x] < 2 THEN count[x] + 1
                           ELSE count[x]]

-----------------------------------------------------------------------------
(* ListObjects, and the client that follows NextContinuationToken.         *)
ListObjects ==
    /\ more
    /\ LET page == Page(After(Plain(Matching)))
           shown == IF request.delimiter THEN {Folder[k] : k \in Matching} \ {0}
                    ELSE {}
       IN  /\ listed' = Seen(listed, ToSet(page.keys))
           /\ folders' = Seen(folders, shown)
           /\ more' = page.truncated
           /\ token' = NextContinuationToken(page)
    /\ UNCHANGED <<request, live, steady>>

(* An object is put or deleted by somebody else.                           *)
PutKey(k) ==
    /\ more /\ k \notin live
    /\ live' = live \cup {k}
    /\ UNCHANGED <<request, token, more, listed, folders, steady>>

DeleteKey(k) ==
    /\ more /\ k \in live
    /\ live' = live \ {k} /\ steady' = steady \ {k}
    /\ UNCHANGED <<request, token, more, listed, folders>>

ListNext == ListObjects \/ \E k \in Ranks : PutKey(k) \/ DeleteKey(k)

ListSpec == ListInit /\ [][ListNext]_listVars

-----------------------------------------------------------------------------
Asked == {k \in Ranks : k >= effectiveStart /\ k \in Low..High}

(* ListedOnce: no key is on two pages, and when the last page is there     *)
(* every key that had an object all the time has been listed, itself or    *)
(* through its common prefix (paginateFlat, listWithDelimiter).            *)
ListedOnce ==
    /\ \A k \in Ranks : listed[k] <= 1
    /\ ~more => \A k \in steady \cap Asked :
                  \/ listed[k] = 1
                  \/ request.delimiter /\ Folder[k] # 0 /\ folders[Folder[k]] >= 1

(* FolderOnce: no common prefix is on two pages.                           *)
FolderOnce == \A f \in FolderNames : folders[f] <= 1

=============================================================================
