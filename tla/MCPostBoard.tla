---------------------------- MODULE MCPostBoard -----------------------------
(* Small instances of PostBoard for TLC. *)
EXTENDS PostBoard

CONSTANTS c1, c2, ann, bob, p1, p2, study, food

\* Ann and Bob have a device each.
DeviceEach == [c \in Client |-> IF c = c1 THEN {ann} ELSE {bob}]

\* Ann uses both devices, Bob only the second one.
AnnOnBoth == [c \in Client |-> IF c = c1 THEN {ann} ELSE {ann, bob}]

\* Everybody uses every device.
EveryDevice == [c \in Client |-> User]

\* All the posts of one page.
AllStudy == [p \in Post |-> study]

\* A page for each post.
StudyAndFood == [p \in Post |-> IF p = p1 THEN study ELSE food]

\* Everybody has pinned every old post.
AllPinned == User \X OldPosts

\* Ann has pinned every old post, Bob none.
AnnPinned == {ann} \X OldPosts

\* Ann has helped twice before, Bob never.
AnnHelpedTwice == [u \in User |-> IF u = ann THEN 2 * KarmaAward ELSE 0]
=============================================================================
