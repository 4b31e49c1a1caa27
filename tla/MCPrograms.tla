----------------------------- MODULE MCPrograms ------------------------------
(* A directory, two text files (a block; two blocks and a half), which are  *)
(* grep's texts and fish's frames too, and the RTC.  Blocks have two bytes  *)
(* and do not follow one another; only a regular file has an inode.  The    *)
(* second file's name fills its field; programs also open it by a name that *)
(* differs in the last character, which is not compared, and by one that    *)
(* lacks it.                                                                *)
EXTENDS Programs, TLC

Image == << [fname |-> <<"d">>, ftype |-> "directory", inode_num |-> 9],
            [fname |-> <<"a">>, ftype |-> "regular",   inode_num |-> 0],
            [fname |-> <<"r">>, ftype |-> "special",   inode_num |-> 9],
            [fname |-> <<"a", "b", "a", "b">>, ftype |-> "regular", inode_num |-> 1] >>

Disk == (0 :> [length |-> 2, datablock_num |-> <<4, 1>>]) @@
        (1 :> [length |-> 5, datablock_num |-> <<0, 3, 2>>])

UserNames  == {<<"d">>, <<"a">>, <<"r">>, <<"a", "b", "a", "b">>, <<"a", "b", "a", "a">>,
               <<"a", "b", "a">>, <<"a", "b">>}
WrongNames == << <<"a", "b">>, <<"b">>, <<>> >>
Words      == {<<"s">>, <<"s", "x">>}
Frames     == {<< <<"a">>, <<"a", "b", "a", "b">> >>, << <<"a", "b", "a", "b">>, <<"a">> >>,
               << <<"a">>, <<"b">> >>, << <<"b">>, <<"a">> >>}
TextChars  == {"s", "x", NL}
ByteChars  == {"s", NUL, NL}
Letters    == {<<"s">>}
NoWords    == {}
=============================================================================
