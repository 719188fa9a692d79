-------------------------------- MODULE MCFS --------------------------------
(***************************************************************************)
(* CeresFS for TLC: CeresFS.cfg, CeresFSBytes.cfg.                         *)
(***************************************************************************)
EXTENDS CeresFS

Mode(read, write, creat, trunc, append) ==
    [read |-> read, write |-> write, creat |-> creat, trunc |-> trunc, append |-> append]

MCFlags == {Mode(TRUE, FALSE, FALSE, FALSE, FALSE), Mode(FALSE, TRUE, TRUE, TRUE, FALSE),
            Mode(TRUE, TRUE, TRUE, FALSE, TRUE)}
MCPaths == {<<"a">>, <<"b">>, <<"a", "a">>, <<"a", "b">>}
MCMoves == {<< <<"b">>, <<"a", "b">> >>, << <<"a", "b">>, <<"b">> >>, << <<"a", "a">>, <<"a", "b">> >>,
            << <<"a">>, <<"b">> >>, << <<"a">>, <<"a", "b">> >>}
MCPayloads == {<<1, 2>>}

\* A volume with a file of two clusters in a directory, which a second file would make grow.
Settled ==
    [fat |-> [Formatted.fat EXCEPT ![1] = FatEnd, ![2] = 3, ![3] = FatEnd],
     sec |-> [Formatted.sec EXCEPT ![1] = DirSector(<<Entry("a", 1, 0, TRUE)>>),
                                   ![SectorOf(1)] = DirSector(<<Entry("a", 2, 3, FALSE)>>),
                                   ![SectorOf(2)] = DataSector(<<1, 2>>),
                                   ![SectorOf(3)] = DataSector(<<2, 0>>)]]
MCDisks == {Settled}
MCNothing == [bytes \in {} |-> NoEntries]

\* An empty directory and a file; bytes that, taken for an entry, lead to the file's cluster.
Aside ==
    [fat |-> [Formatted.fat EXCEPT ![1] = FatEnd, ![2] = FatEnd],
     sec |-> [Formatted.sec EXCEPT ![1] = DirSector(<<Entry("a", 1, 0, TRUE)>>),
                                   ![2] = DirSector(<<Entry("b", 2, 2, FALSE)>>),
                                   ![SectorOf(2)] = DataSector(<<1, 2>>)]]
MCAside == {Aside}
MCLikeEntry == [bytes \in {<<2, 2>>} |-> <<Entry("a", 2, 2, FALSE)>>]
MCLikePayloads == {<<2, 2>>}

\* Nothing that happens later depends on the last answer.
View == <<vol, files, phase, kept, ops, stops>>
=============================================================================
