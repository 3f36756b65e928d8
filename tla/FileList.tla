------------------------------ MODULE FileList ------------------------------
(***************************************************************************)
(* parseFileList (lib/filesystem/filesystemaccess.cpp): the photos in the  *)
(* list the camera sends.  Its header holds the length of an entry and the *)
(* number of words before the first entry.                                 *)
(*                                                                         *)
(* A photo is given by the position of its entry; parseLine reads          *)
(* ENTRY_SIZE bytes from there, whatever the length in the header.         *)
(***************************************************************************)
EXTENDS Integers, Sequences

CONSTANTS
    Listings,       \* lists a camera may send: linelen, words and size
    MaxPhotos       \* bound: the photos there is memory for

ENTRY_SIZE == 124
HEADER_SIZE == 12

VARIABLES
    listing,        \* the buffer
    pos,            \* parseFileList: the position in it
    photos          \* parseFileList: fileList

listVars == <<listing, pos, photos>>

FirstEntry(list) == list.words * 8 + HEADER_SIZE

(* A list has its header, and the words the header announces. *)
Lists == [linelen : Nat, words : Nat, size : Nat]
ASSUME ListAssumption ==
    /\ Listings \subseteq Lists
    /\ \A list \in Listings : FirstEntry(list) <= list.size
    /\ MaxPhotos \in Nat

NoList == [linelen |-> 0, words |-> 0, size |-> 0]

(* getPictureList: the list arrives. *)
ReceiveList ==
    /\ listing' \in Listings
    /\ pos' = FirstEntry(listing')
    /\ photos' = << >>

(* Wrong variant of MoreEntries: the last entry is left out. *)
MoreEntriesBefore == pos + listing.linelen < listing.size

(* Whether the next entry is in the buffer as far as parseLine reads it. *)
Inside == pos + ENTRY_SIZE <= listing.size

(* The condition of the loop ... *)
MoreEntries == pos + listing.linelen <= listing.size

(* ... and its body. *)
ParseEntry ==
    /\ MoreEntries
    /\ Len(photos) < MaxPhotos
    /\ photos' = Append(photos, [at |-> pos, inside |-> Inside])
    /\ pos' = pos + listing.linelen
    /\ UNCHANGED listing
=============================================================================
