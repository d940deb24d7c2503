--------------------------- MODULE MCAttributes ---------------------------
(* Three images: one of each inode layout with shared, empty and           *)
(* differently prefixed attributes and an id table of two MD-blocks; one   *)
(* with an attribute whose prefix is unknown and with forced owners; one   *)
(* without attributes.                                                     *)
EXTENDS Attributes

Ino(type, num, uid, guid, xattr) ==
    [type |-> type, num |-> num, uid |-> uid, guid |-> guid, xattr |-> xattr,
     nlink |-> num + 2, size |-> 10 * num, tail |-> <<31, 32, 33>>,
     data |-> [start_block |-> 100 + num, fragment |-> 120 + num, offset |-> 140 + num,
               i_count |-> 160 + num, parent_inode |-> 180 + num],
     major |-> 1 + (num % 2), minor |-> num]

Attr(prefix, name, value, shared) ==
    [prefix |-> prefix, name |-> name, value |-> value, shared |-> shared]

Full ==
    [inodes |-> <<Ino(3, 5, 0, 1, NoXattr), Ino(10, 2, 4, 0, 0), Ino(1, 6, 1, 4, NoXattr),
                  Ino(2, 1, 2, 2, NoXattr), Ino(9, 4, 3, 4, 1), Ino(4, 3, 0, 0, NoXattr),
                  Ino(12, 8, 0, 0, 2), Ino(8, 7, 0, 0, 2), Ino(6, 10, 0, 0, NoXattr),
                  Ino(14, 9, 0, 0, 0)>>,
     root |-> 3, ids |-> <<50, 51, 52, 53, 54>>,
     attrs |-> <<Attr(0, <<41>>, <<71, 72>>, 0), Attr(1, <<41>>, <<>>, 1),
                 Attr(0, <<41, 42>>, <<>>, 0), Attr(2, <<43>>, <<73>>, 0),
                 Attr(0, <<41>>, <<>>, 4)>>,
     sets |-> <<[first |-> 1, count |-> 3], [first |-> 2, count |-> 4],
                [first |-> 4, count |-> 1]>>,
     asUid |-> 0, asGid |-> 0]

Unknown ==
    [inodes |-> <<Ino(8, 2, 0, 0, 0), Ino(10, 1, 0, 0, 0)>>,
     root |-> 1, ids |-> <<50>>,
     attrs |-> <<Attr(0, <<41>>, <<71>>, 0), Attr(3, <<42>>, <<72>>, 0)>>,
     sets |-> <<[first |-> 1, count |-> 2]>>,
     asUid |-> 7, asGid |-> 8]

Bare ==
    [inodes |-> <<Ino(1, 1, 0, 0, NoXattr), Ino(11, 2, 0, 1, NoXattr)>>,
     root |-> 1, ids |-> <<50, 51>>, attrs |-> <<>>, sets |-> <<>>, asUid |-> 0, asGid |-> 8]

SmallImages == {Full, Unknown, Bare}

\* Two names that one extends, one of each other prefix, one with none.
SmallWanted == {PrefixOf(0) \o <<41>>, PrefixOf(0) \o <<41, 42>>, PrefixOf(1) \o <<41>>,
                PrefixOf(2) \o <<43>>, PrefixOf(1) \o <<45>>, <<41>>}
=============================================================================
