------------------------------- MODULE Initrd ------------------------------
(***************************************************************************)
(* The initial ramdisk, from the files on the build host to what the shell *)
(* prints: make_initrd.c lays the image out, the boot loader puts it in    *)
(* memory, kernel/kernel/fs/initrd.cpp makes file nodes of it, vfs.cpp     *)
(* dispatches, and ls and cat of the shell use them.                       *)
(*                                                                         *)
(* Characters and bytes are numbers; the image is its headers, the number  *)
(* of bytes they take and the bytes behind them.  Names are C strings in   *)
(* buffers of fixed size, handled by the functions of module Libc.         *)
(***************************************************************************)
EXTENDS Integers, Sequences, Libc

CONSTANTS
    HEADER,         \* sizeof(initrd_header), 4
    FILE_HEADER,    \* sizeof(initrd_file_header), 72
    NAME,           \* the size of the name in a file header, 64
    NODE_NAME,      \* the size of the name in an fs_node and in a dirent, 128
    WORD,           \* 2^32
    BUF,            \* the size of cat's buffer, 256
    Sources,        \* what the files given to make_initrd may be:
                    \* sequences of [path, data]
    Names,          \* what the user types after cat
    MAX_EXTENT      \* bound: how far from 0 and from WORD the offsets and sizes lie

ASSUME LayoutAssumption ==
    /\ {HEADER, FILE_HEADER, NAME, WORD} \subseteq Nat \ {0}
    /\ NODE_NAME \in Nat /\ NAME <= NODE_NAME /\ 3 <= NODE_NAME
    /\ BUF \in 1 .. WORD /\ MAX_EXTENT \in 0 .. WORD - 1

\* strrchr(path, '/'): what lies behind the last slash, or all of the path.
SLASH == 47
FileName(path) ==
    LET length == Min({Len(path)} \cup
                      {Len(path) - i : i \in {j \in 1 .. Len(path) : path[j] = SLASH}})
    IN SubSeq(path, Len(path) - length + 1, Len(path))

\* How much data the first n files have, and the size of the image.
DataBefore(s) ==
    LET before[n \in 0 .. Len(s)] == IF n = 0 THEN 0 ELSE before[n - 1] + Len(s[n].data)
    IN before
ImageSize(s) == HEADER + FILE_HEADER * Len(s) + DataBefore(s)[Len(s)]

ASSUME SourcesAssumption ==
    \A s \in Sources :
        /\ s \in Seq([path : Seq(Nat \ {NUL}), data : Seq(Nat)])
        /\ Len(s) > 0 /\ \A n \in 1 .. Len(s) : FileName(s[n].path) # << >>
        /\ ImageSize(s) < WORD

\* A name is an argument of make_initrd or a word that is typed: no NUL is in it.
ASSUME NamesAssumption == \A name \in Names : name \in Seq(Nat \ {NUL})

Dot == <<46>>
DotDot == <<46, 46>>

VARIABLES
    files,          \* the files on the build host
    pc,
    k,              \* loop index of make_initrd; index of ls
    nfiles, headers, current_offset,
    header_bytes,   \* bytes written to the image ahead of the file data
    data,           \* bytes written to the image behind them
    root_nodes,     \* fs_node_t of the files
    fs_root,        \* the kernel has a root directory
    dirent,         \* the name in the one struct dirent that initrd_readdir fills
    request,        \* history: the arguments of the last vfs_read or cat
    reply,          \* history: the bytes it returned or printed
    listing         \* history: the names that ls has printed

image == <<files, nfiles, headers, current_offset, header_bytes, data>>
shell == <<request, reply, listing>>
nodes == <<fs_root, root_nodes>>
vars == <<image, pc, k, nodes, dirent, shell>>

NoRequest == [name |-> << >>, node |-> 0, offset |-> 0, size |-> 0]

Init ==
    /\ files \in Sources
    /\ pc = "make" /\ k = 0
    /\ nfiles = 0 /\ headers = << >> /\ current_offset = 0
    /\ header_bytes = 0 /\ data = << >>
    /\ fs_root = FALSE /\ root_nodes = << >>
    /\ dirent = [n \in 1 .. NODE_NAME |-> NUL]
    /\ request = NoRequest /\ reply = << >> /\ listing = << >>
----------------------------------------------------------------------------
(* make_initrd.c *)

\* Mutant: the offsets forget the global header.
make_header_NoGlobal ==
    /\ pc = "make"
    /\ nfiles' = Len(files)
    /\ header_bytes' = HEADER
    /\ current_offset' = FILE_HEADER * Len(files)
    /\ pc' = "make_headers" /\ k' = 1
    /\ UNCHANGED <<files, headers, data, nodes, dirent, shell>>

\* The global header, and where the data of the first file will begin.
make_header ==
    /\ pc = "make"
    /\ nfiles' = Len(files)
    /\ header_bytes' = HEADER
    /\ current_offset' = HEADER + FILE_HEADER * Len(files)
    /\ pc' = "make_headers" /\ k' = 1
    /\ UNCHANGED <<files, headers, data, nodes, dirent, shell>>

\* strncpy(headers[i].name, name, 63) into a cleared header.
strncpy(name) ==
    [n \in 1 .. NAME |-> IF n <= Len(name) /\ n < NAME THEN name[n] ELSE NUL]

\* The header of the k-th file, with its name but not its directory; main returns 1 when
\* the file cannot be opened.
make_file_header ==
    /\ pc = "make_headers" /\ k <= nfiles
    /\ \/ /\ headers' = Append(headers, [name |-> strncpy(FileName(files[k].path)),
                                         offset |-> current_offset,
                                         length |-> Len(files[k].data)])
          /\ current_offset' = current_offset + Len(files[k].data)
          /\ header_bytes' = header_bytes + FILE_HEADER
          /\ k' = k + 1
          /\ UNCHANGED pc
       \/ pc' = "failed" /\ UNCHANGED <<headers, current_offset, header_bytes, k>>
    /\ UNCHANGED <<files, nfiles, data, nodes, dirent, shell>>

make_headers_done ==
    /\ pc = "make_headers" /\ k > nfiles
    /\ pc' = "make_data" /\ k' = 1
    /\ UNCHANGED <<image, nodes, dirent, shell>>

make_data ==
    /\ pc = "make_data" /\ k <= nfiles
    /\ data' = data \o files[k].data
    /\ k' = k + 1
    /\ UNCHANGED <<files, nfiles, headers, current_offset, header_bytes, pc, nodes, dirent,
                   shell>>
----------------------------------------------------------------------------
(* initrd.cpp *)

\* The node of the n-th file header, in cleared memory.
Node(n) == [name |-> strcpy(memset([m \in 1 .. NODE_NAME |-> 1], NUL, NODE_NAME),
                            headers[n].name),
            length |-> headers[n].length, inode |-> n - 1]

\* Mutant: the last file gets no node.
initialise_initrd_Short ==
    /\ pc = "make_data" /\ k > nfiles
    /\ root_nodes' = [n \in 1 .. nfiles - 1 |-> Node(n)] /\ fs_root' = TRUE
    /\ pc' = "shell" /\ k' = 0
    /\ UNCHANGED <<image, dirent, shell>>

\* initialise_initrd: a node for every file header.
initialise_initrd ==
    /\ pc = "make_data" /\ k > nfiles
    /\ root_nodes' = [n \in 1 .. nfiles |-> Node(n)] /\ fs_root' = TRUE
    /\ pc' = "shell" /\ k' = 0
    /\ UNCHANGED <<image, dirent, shell>>

\* The boot loader has no module for the kernel: fs_root stays 0.
no_module ==
    /\ pc = "make"
    /\ pc' = "shell"
    /\ UNCHANGED <<image, k, nodes, dirent, shell>>

\* The bytes in memory from an offset of the image on, as many as are asked for.
Beyond == -1    \* a byte that is not file data
ImageAt(from, size) ==
    [n \in 1 .. size |-> LET at == from - header_bytes + n IN
                          IF at \in DOMAIN data THEN data[at] ELSE Beyond]

\* The number of bytes that initrd_read returns, and the buffer after it.
initrd_read(inode, offset, size, buffer) ==
    LET h == headers[inode + 1]
        n == IF (offset + size) % WORD > h.length THEN h.length - offset ELSE size
    IN IF offset > h.length THEN [size |-> 0, buffer |-> buffer]
       ELSE [size |-> n, buffer |-> memcpy(buffer, ImageAt(h.offset + offset, n), n)]

\* Mutant: the two directories are counted as files.
initrd_readdir_Short(index) ==
    IF index = 0 THEN Literal(Dot)
    ELSE IF index = 1 THEN Literal(DotDot)
    ELSE IF index < nfiles THEN root_nodes[index - 1].name
    ELSE << >>

\* The string that is copied to dirent.name for an index; << >> behind the last.
initrd_readdir(index) ==
    IF index = 0 THEN Literal(Dot)
    ELSE IF index = 1 THEN Literal(DotDot)
    ELSE IF index - 2 < nfiles THEN root_nodes[index - 1].name
    ELSE << >>

\* Mutant: the loop starts at the second file.
initrd_finddir_Second(name) ==
    LET found == {n \in 2 .. nfiles : strcmp(name, root_nodes[n].name) = 0} IN
    IF strcmp(name, Literal(Dot)) = 0 \/ strcmp(name, Literal(DotDot)) = 0 THEN 0
    ELSE IF found = {} THEN -1 ELSE Min(found)

\* 0 is the root directory, n the n-th file, -1 nothing.
initrd_finddir(name) ==
    LET found == {n \in 1 .. nfiles : strcmp(name, root_nodes[n].name) = 0} IN
    IF strcmp(name, Literal(Dot)) = 0 \/ strcmp(name, Literal(DotDot)) = 0 THEN 0
    ELSE IF found = {} THEN -1 ELSE Min(found)
----------------------------------------------------------------------------
(* vfs.cpp and the commands of the shell; fs_root is the root directory *)

\* Only the nodes of files have a read function.
vfs_read(node, offset, size, buffer) ==
    IF node = 0 THEN [size |-> 0, buffer |-> buffer]
    ELSE initrd_read(root_nodes[node].inode, offset, size, buffer)

\* The root is the only directory.
vfs_readdir(node, index) == IF node = 0 THEN initrd_readdir(index) ELSE << >>
vfs_finddir(node, name) == IF node = 0 THEN initrd_finddir(name) ELSE -1

\* A buffer of the caller's, with bytes that are not of a file.
Fresh(size) == [n \in 1 .. size |-> Beyond]

\* A call of vfs_read, with a buffer of the size that is asked for.
read_file(node, offset, size) ==
    /\ pc = "shell" /\ fs_root
    /\ request' = [NoRequest EXCEPT !.node = node, !.offset = offset, !.size = size]
    /\ LET r == vfs_read(node, offset, size, Fresh(size)) IN
         reply' = SubSeq(r.buffer, 1, r.size)
    /\ pc' = "read"
    /\ UNCHANGED <<image, k, nodes, dirent, listing>>

\* "%s\n"
StringLine == <<PERCENT, 115, NL>>

\* The first BUF - 1 bytes of the file as a string; messages are left out.
cat(name) ==
    /\ pc = "shell"
    /\ LET node == vfs_finddir(0, Literal(name))
           r == vfs_read(node, 0, BUF - 1, Fresh(BUF))
           buf == [r.buffer EXCEPT ![r.size + 1] = NUL]
       IN reply' = IF ~fs_root \/ node < 1 THEN << >> ELSE printf(StringLine, <<buf>>, WORD)
    /\ request' = [NoRequest EXCEPT !.name = name]
    /\ pc' = "cat"
    /\ UNCHANGED <<image, k, nodes, dirent, listing>>

\* Without a root directory ls prints a message and is over.
ls ==
    /\ pc = "shell" /\ fs_root
    /\ pc' = "ls"
    /\ UNCHANGED <<image, k, nodes, dirent, shell>>

\* Mutant: the name is copied without its end.
ls_entry_NoNul ==
    /\ pc = "ls" /\ vfs_readdir(0, k) # << >>
    /\ LET src == vfs_readdir(0, k) IN dirent' = memcpy(dirent, src, strlen(src))
    /\ LET fsnode == vfs_finddir(0, dirent') IN
         listing' = IF fsnode < 0 THEN listing
                    ELSE Append(listing, [dir |-> fsnode = 0,
                                          text |-> printf(StringLine, <<dirent'>>, WORD)])
    /\ k' = k + 1
    /\ UNCHANGED <<image, pc, nodes, request, reply>>

\* One round of the loop of ls: the entry is copied to dirent, and printed, marked as
\* a directory or a file, when it is found again by the name there.
ls_entry ==
    /\ pc = "ls" /\ vfs_readdir(0, k) # << >>
    /\ dirent' = strcpy(dirent, vfs_readdir(0, k))
    /\ LET fsnode == vfs_finddir(0, dirent') IN
         listing' = IF fsnode < 0 THEN listing
                    ELSE Append(listing, [dir |-> fsnode = 0,
                                          text |-> printf(StringLine, <<dirent'>>, WORD)])
    /\ k' = k + 1
    /\ UNCHANGED <<image, pc, nodes, request, reply>>

\* The command is over.
return ==
    /\ \/ pc \in {"read", "cat"}
       \/ pc = "ls" /\ vfs_readdir(0, k) = << >>
    /\ pc' = "shell" /\ k' = 0
    /\ request' = NoRequest /\ reply' = << >> /\ listing' = << >>
    /\ UNCHANGED <<image, nodes, dirent>>

failed == pc = "failed" /\ UNCHANGED vars

Extents == (0 .. MAX_EXTENT) \cup (WORD - MAX_EXTENT .. WORD - 1)

Next ==
    \/ make_header
    \/ make_file_header
    \/ make_headers_done
    \/ make_data
    \/ initialise_initrd
    \/ no_module
    \/ \E node \in 0 .. nfiles, offset, size \in Extents : read_file(node, offset, size)
    \/ \E name \in Names : cat(name)
    \/ ls
    \/ ls_entry
    \/ return
    \/ failed

Spec == Init /\ [][Next]_vars
FairSpec == Spec /\ WF_vars(ls_entry) /\ WF_vars(return)
----------------------------------------------------------------------------
\* Every variable has its type; from initialise_initrd on there is a node for
\* every file of the image.
TypeOK ==
    /\ files \in Sources
    /\ pc \in {"make", "make_headers", "make_data", "failed", "shell", "read", "cat", "ls"}
    /\ k \in Nat /\ nfiles \in Nat /\ current_offset \in 0 .. WORD - 1
    /\ header_bytes \in Nat
    /\ \A n \in 1 .. Len(headers) :
         headers[n].offset + headers[n].length < WORD
    /\ Len(root_nodes) = IF pc \in {"shell", "read", "cat", "ls"} THEN nfiles ELSE 0
    /\ fs_root => pc \in {"shell", "read", "cat", "ls"}

\* The bytes of a sequence from offset on, at most size of them.
Slice(s, offset, size) ==
    SubSeq(s, offset + 1, IF offset + size < Len(s) THEN offset + size ELSE Len(s))

\* vfs_read of the n-th node returns the bytes that the n-th file had on the build
\* host, clipped at its end, whichever files lie before it in the image:
\* the offsets that make_initrd computes are where it writes.  It is said of requests
\* that end below 4 GiB: where offset + size wraps, initrd_read finds the sum within
\* the file and returns size bytes, most of them not of the file.
ReadsOwnFile ==
    pc = "read" =>
        IF request.node = 0 THEN reply = << >>
        ELSE request.offset + request.size < WORD =>
               reply = Slice(files[request.node].data, request.offset, request.size)

\* The bytes before the first 0.
UpToNul(s) == SelectInSeq(s, LAMBDA b : b = NUL)
Printed(s) == (IF UpToNul(s) = 0 THEN s ELSE SubSeq(s, 1, UpToNul(s) - 1)) \o <<NL>>

\* The name that a file has in the image.
ImageName(n) ==
    LET name == FileName(files[n].path)
    IN SubSeq(name, 1, IF Len(name) < NAME THEN Len(name) ELSE NAME - 1)

\* A name that fits into a header, given to cat, finds the first file with that
\* name, and only that one, through three copies of the name in buffers of two
\* sizes.
CatFindsFile ==
    pc = "cat" /\ Len(request.name) < NAME /\ request.name \notin {Dot, DotDot} =>
        \A n \in 1 .. nfiles :
            /\ FileName(files[n].path) = request.name
            /\ \A m \in 1 .. n - 1 : ImageName(m) # request.name
            => reply = Printed(Slice(files[n].data, 0, BUF - 1))

\* What ls has to show: the two directories and the files in their order.
Shown(dir, name) == [dir |-> dir, text |-> Printed(name)]
Listed ==
    <<Shown(TRUE, Dot), Shown(TRUE, DotDot)>> \o [n \in 1 .. nfiles |-> Shown(FALSE, ImageName(n))]

\* At every moment ls has shown each entry that it has passed, once and in order, as
\* what it is and under its own name, although a shorter name is copied over a longer
\* one in the one dirent; only a file that is called . or .. is taken for a directory.
LsInOrder ==
    pc = "ls" /\ (\A n \in 1 .. nfiles : ImageName(n) \notin {Dot, DotDot}) =>
        listing = SubSeq(Listed, 1, k)

\* ls ends and has then shown everything.
LsShowsAll == pc = "ls" ~> (pc = "ls" /\ listing = Listed)
============================================================================
