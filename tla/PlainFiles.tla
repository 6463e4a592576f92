----------------------------- MODULE PlainFiles -----------------------------
(***************************************************************************)
(* What HyCache promises its users: a file system of one disk.  Names lead   *)
(* to files, a file has its content and its mode, and a handle stays with     *)
(* its file whatever becomes of the name.                                    *)
(***************************************************************************)
EXTENDS Integers

CONSTANTS Names, Ids, Handles, None, MaxVersion

VARIABLES tree,     \* the file of each name, or None
          content,  \* what was written to each file: 0 is empty
          mode,     \* the mode of each file
          opened,   \* the file of each handle, or None
          seen      \* what a call that read returned

plainVars == <<tree, content, mode, opened, seen>>

Init == /\ tree \in [Names -> {None}] /\ opened = [h \in Handles |-> None] /\ seen = 0
        /\ content = [i \in Ids |-> 0] /\ mode = [i \in Ids |-> 0]

Unused == {i \in Ids : /\ \A n \in Names : tree[n] # i
                       /\ \A h \in Handles : opened[h] # i}

\* A file nobody can reach any more is empty: its number is used again.
Settled(t, o) == [i \in Ids |-> (\E n \in Names : t[n] = i) \/ \E h \in Handles : o[h] = i]

Step(t, c, m, o) ==
    /\ tree' = t /\ opened' = o
    /\ content' = [i \in Ids |-> IF Settled(t, o)[i] THEN c[i] ELSE 0]
    /\ mode' = [i \in Ids |-> IF Settled(t, o)[i] THEN m[i] ELSE 0]

Create(n, h) == /\ tree[n] = None /\ opened[h] = None /\ seen' = 0
                /\ \E i \in Unused :
                      Step([tree EXCEPT ![n] = i], content, mode, [opened EXCEPT ![h] = i])

Mknod(n) == /\ tree[n] = None /\ seen' = 0
            /\ \E i \in Unused : Step([tree EXCEPT ![n] = i], content, mode, opened)

Open(n, h) == /\ tree[n] # None /\ opened[h] = None /\ seen' = 0
              /\ Step(tree, content, mode, [opened EXCEPT ![h] = tree[n]])

Write(h) == /\ opened[h] # None /\ seen' = 0
            /\ Step(tree, [content EXCEPT ![opened[h]] = @ + 1], mode, opened)

Read(h) == /\ opened[h] # None /\ seen' = content[opened[h]]
           /\ UNCHANGED <<tree, content, mode, opened>>

Getattr(n) == /\ tree[n] # None /\ seen' = content[tree[n]]
              /\ UNCHANGED <<tree, content, mode, opened>>

Empty(h) == /\ opened[h] # None /\ seen' = 0
            /\ Step(tree, [content EXCEPT ![opened[h]] = 0], mode, opened)

Release(h) == /\ opened[h] # None /\ seen' = 0
              /\ Step(tree, content, mode, [opened EXCEPT ![h] = None])

Truncate(n) == /\ tree[n] # None /\ seen' = 0
               /\ Step(tree, [content EXCEPT ![tree[n]] = 0], mode, opened)

Chmod(n) == /\ tree[n] # None /\ seen' = 0
            /\ Step(tree, content, [mode EXCEPT ![tree[n]] = 1 - @], opened)

Unlink(n) == /\ tree[n] # None /\ seen' = 0
             /\ Step([tree EXCEPT ![n] = None], content, mode, opened)

Link(n, m) == /\ tree[n] # None /\ tree[m] = None /\ seen' = 0
              /\ Step([tree EXCEPT ![m] = tree[n]], content, mode, opened)

Rename(n, m) == /\ tree[n] # None /\ n # m /\ seen' = 0
                /\ Step([tree EXCEPT ![m] = tree[n], ![n] = None], content, mode, opened)

\* The mount ends, or crashes: every handle is gone.
Remount == Step(tree, content, mode, [h \in Handles |-> None]) /\ seen' = 0

\* A call that fails, or concerns a directory.
Other == seen' = 0 /\ UNCHANGED <<tree, content, mode, opened>>

Next == \/ Remount \/ Other
        \/ \E h \in Handles : Write(h) \/ Read(h) \/ Empty(h) \/ Release(h)
        \/ \E n \in Names, h \in Handles : Create(n, h) \/ Open(n, h)
        \/ \E n \in Names : \/ Mknod(n) \/ Getattr(n) \/ Truncate(n)
                          \/ Chmod(n) \/ Unlink(n)
        \/ \E n, m \in Names : Link(n, m) \/ Rename(n, m)

Spec == Init /\ [][Next]_plainVars
=============================================================================
