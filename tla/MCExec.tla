------------------------------- MODULE MCExec -------------------------------
(***************************************************************************)
(* Exec on the machine of MCPaging.tla.  As in the programs' ELF files,    *)
(* the first header is empty, .text and .rodata are in different level 1   *)
(* tables and .data is empty; the stack is behind another level 4 entry.   *)
(***************************************************************************)
EXTENDS Exec, MCPaging

Header_(type, size, rights, pages) ==
    [p_type |-> type, p_filesz |-> size, p_flags |-> rights, touches |-> pages]

NullHeader == Header_("NULL", 0, {}, <<>>)
Text == Header_("LOAD", 1, {"R", "X"}, << <<0, 0, 0, 0>> >>)
TextLong == Header_("LOAD", 5, {"R", "X"}, << <<0, 0, 0, 0>>, <<1, 0, 0, 0>> >>)
Rodata == Header_("LOAD", 1, {"R"}, << <<1, 1, 0, 0>> >>)
Data == Header_("LOAD", 1, {"R", "W"}, << <<2, 2, 0, 0>> >>)
DataEmpty == Header_("LOAD", 0, {"R", "W"}, <<>>)

Program(name, headers) ==
    [string |-> name, segments |-> headers, e_entry |-> <<0, 0, 0, 0>>]

\* The shell, the program that _start execs, and two that stress the loader.
Init_ == Program("init", <<NullHeader, Text, Rodata, DataEmpty>>)
Sleep_ == Program("sleep", <<NullHeader, Text, Rodata, DataEmpty>>)
Full_ == Program("full", <<NullHeader, Text, Rodata, Data>>)
Long_ == Program("long", <<TextLong, Rodata>>)

MCModules == <<Init_, Sleep_, Full_, Long_>>
MCSleepModule == <<Init_, Sleep_>>

MCExecPages == {<<0, 0, 0, 0>>, <<1, 0, 0, 0>>, <<1, 1, 0, 0>>, <<2, 2, 0, 0>>,
                <<2, 0, 0, 1>>, <<3, 0, 0, 1>>}
MCStack == << <<2, 0, 0, 1>>, <<3, 0, 0, 1>> >>
MCExecTouched == {<<0, 0, 0, 0>>, <<2, 2, 0, 0>>}

Call(name, where) == [string |-> name, page |-> where]
MCBootCall == Call("sleep", <<0, 0, 0, 2>>)

\* A name that stays mapped is in the kernel's half; init's is on its stack.
MCNamesKept == {Call(name, <<0, 0, 0, 2>>) : name \in {"init", "full", "long", "none"}}
MCNamesAnywhere == MCNamesKept \cup {Call("init", <<3, 0, 0, 1>>)}
MCNamesOnStack == {Call("init", <<3, 0, 0, 1>>)}
=============================================================================
