----------------------------- MODULE MemoryFiles -----------------------------
(***************************************************************************)
(* The memory the agent keeps for itself (orchestrator/extensions/memory): *)
(* a directory of Markdown files for every session                         *)
(* (hierarchical/extension.py, utils.py) and the reminder to write to it   *)
(* (reminder.py).                                                          *)
(*                                                                         *)
(* A path is the sequence of its names, a name a number (names are in      *)
(* their order).  A file ends in .md and a directory does not, as the      *)
(* tools tell the agent.  A tool call is one step.                         *)
(***************************************************************************)
EXTENDS FileTexts

CONSTANTS
  MemSessions,
  MemFiles,             \* paths of files
  TagNames,             \* characters that tags are made of, beside dashes
  MemCommands,          \* what the agent may ask for
  RemindAfter, SnoozeAmount,
  MaxLlmCalls, MaxWrites

Parents(p) == {SubSeq(p, 1, n) : n \in 1..(Len(p) - 1)}
MemDirs == UNION {Parents(f) : f \in MemFiles}
Within(d, p) == d \in Parents(p)

\* A tag as YAML writes it: in one line, and in quotes if it would begin with a
\* dash otherwise.  (A tag with an end of a line in it, or one of more than eighty
\* characters, is written in several lines: there is none here.)  "-" stands for
\* three dashes.
IsTag(t) ==
  t # <<>> /\ t[1] \in TagNames /\ ToSet(t) \subseteq TagNames \cup {"-"}
Tags == {t \in Seq(Characters) : IsTag(t)}

ASSUME MemoryAssumption ==
  /\ MemFiles \subseteq Seq(Nat) /\ MemFiles \cap MemDirs = {}
  /\ TagNames \cup {"-"} \subseteq Characters
  /\ TagNames \cap {"-", NL, CR} = {}
  /\ SnoozeAmount <= RemindAfter

\* What the tools are given, as their schemas have it.
ASSUME MemCommandsAssumption ==
  \A c \in MemCommands :
    /\ c.session \in MemSessions
    /\ c.command = "write" =>
         c.path \in MemFiles /\ c.content \in Seq(Characters) /\ c.tags \in Seq(Tags)
    /\ c.command = "edit" => c.path \in MemFiles
    /\ c.command = "delete" => c.paths \in Seq(Seq(Nat))
    /\ c.command = "import" => c.from \in Seq(MemSessions)

VARIABLES
  memory,               \* session -> file -> text or None
  folders,              \* session -> directories that are there
  llmCalls,             \* session -> calls of the model since the last change
  wrote,                \* history variable: what was written, [tags, content], or None
  answer,               \* of the last tool: [of, ok, data]
  writes

memVars == <<memory, folders, llmCalls, wrote, answer, writes>>

-----------------------------------------------------------------------------
\* The tags of a file stand in a header between two rules, a line for each.

Rule == <<"-", NL>>
Header(tags) == Join(Append(tags, <<>>))

\* create_content_with_frontmatter
WithFrontmatter(content, tags) ==
  IF tags = <<>> THEN content ELSE Rule \o Header(tags) \o Rule \o content

\* The tags of a header, which ends with a line or, cut off, in the midst of one.
TagsIn(header) ==
  LET lines == Lines(header)
  IN  IF Last(lines) = <<>> THEN Front(lines) ELSE lines
IsTagList(tags) == tags # <<>> /\ \A k \in DOMAIN tags : IsTag(tags[k])

\* Where a text can be split after its first line, if that is a rule.
Rules(t) == {i \in Occurrences(Rule, t) : i > Len(Rule)}
HeaderUpto(t, i) == SubSeq(t, Len(Rule) + 1, i - 1)
SplitAt(t, i) ==
  IF IsTagList(TagsIn(HeaderUpto(t, i)))
  THEN [tags |-> TagsIn(HeaderUpto(t, i)), content |-> SubSeq(t, i + Len(Rule), Len(t))]
  ELSE [tags |-> <<>>, content |-> t]

\* Mutant: the header reaches to the last rule.
FrontmatterToLastRule(t) ==
  IF IsPrefix(Rule, t) /\ Rules(t) # {} THEN SplitAt(t, Max(Rules(t)))
  ELSE [tags |-> <<>>, content |-> t]

\* parse_frontmatter: the header ends at the first rule, be it the end of a tag; one
\* that is no list of tags is content.
Frontmatter(t) ==
  IF IsPrefix(Rule, t) /\ Rules(t) # {} THEN SplitAt(t, Min(Rules(t)))
  ELSE [tags |-> <<>>, content |-> t]

-----------------------------------------------------------------------------
\* _load_memory_from_filesystem: the nodes are the files and the directories that
\* hold a file; a directory that holds one directory and nothing else is merged
\* with it and is no node (merge_single_child_memory_dirs).

Present(s) == {f \in MemFiles : memory[s][f] # None}
Holding(s, d) == {f \in Present(s) : Within(d, f)}
Shown(s) == {d \in folders[s] : Holding(s, d) # {}}
Children(s, d) == {p \in Present(s) \cup Shown(s) : Within(d, p) /\ Len(p) = Len(d) + 1}
Merged(s, d) == \E child \in Shown(s) : Children(s, d) = {child}
Nodes(s) == Present(s) \cup {d \in Shown(s) : ~Merged(s, d)}

Node(s, p) ==
  IF p \in MemFiles THEN Frontmatter(AsRead(memory[s][p])) ELSE [tags |-> <<>>, content |-> <<>>]

\* sorted(iterdir()), a directory before what is in it.
Earlier(p, q) ==
  \/ p \in Parents(q)
  \/ \E n \in 1..Min({Len(p), Len(q)}) :
       SubSeq(p, 1, n - 1) = SubSeq(q, 1, n - 1) /\ p[n] < q[n]

\* node_matches_criteria: a pattern of paths is the paths it matches, one of
\* contents a character to be found; all tags must be there.
Matching(s, c) ==
  {p \in Nodes(s) :
     /\ c.paths = None \/ p \in c.paths
     /\ c.contains = None \/ c.contains \in ToSet(Node(s, p).content)
     /\ ToSet(c.tags) \subseteq ToSet(Node(s, p).tags)}

\* collect_matching_nodes: the first max of them.
Collected(s, c) ==
  {p \in Matching(s, c) : Cardinality({q \in Matching(s, c) : Earlier(q, p)}) < c.max}

-----------------------------------------------------------------------------
Answer(c, ok, data) == answer' = [of |-> c, ok |-> ok, data |-> data]

\* _display_memory shows the memory after a change, and puts the reminder off.
Display(s) == llmCalls' = [llmCalls EXCEPT ![s] = 0]

SearchMemory(c) ==
  /\ c.command = "search"
  /\ Answer(c, TRUE, Collected(c.session, c))
  /\ UNCHANGED <<memory, folders, llmCalls, wrote, writes>>

ReadMemory(c) ==
  /\ c.command = "read"
  /\ LET s == c.session
         t == memory[s][c.path]
     IN  IF c.path \in folders[s]
         THEN Answer(c, TRUE, {p \in folders[s] \cup Present(s) :
                                 Within(c.path, p) /\ Len(p) = Len(c.path) + 1})
         ELSE IF c.path \notin Present(s) THEN Answer(c, FALSE, None)
         ELSE Answer(c, Viewed(AsRead(t), c.first, c.last, Len(Lines(AsRead(t)))) # None,
                     {c.path})
  /\ UNCHANGED <<memory, folders, llmCalls, wrote, writes>>

WriteMemory(c) ==
  /\ c.command = "write"
  /\ writes < MaxWrites /\ writes' = writes + 1
  /\ folders' = [folders EXCEPT ![c.session] = @ \cup Parents(c.path)]
  /\ memory' = [memory EXCEPT ![c.session][c.path] = WithFrontmatter(c.content, c.tags)]
  /\ wrote' = [wrote EXCEPT ![c.session][c.path] = [tags |-> c.tags, content |-> c.content]]
  /\ Display(c.session)
  /\ Answer(c, TRUE, IF c.path \in Present(c.session) THEN "updated" ELSE "created")

\* edit_memory works on the text with its header.
EditMemory(c) ==
  /\ c.command = "edit"
  /\ LET s == c.session
         t == memory[s][c.path]
         new == IF t = None THEN None ELSE StrReplaced(AsRead(t), c.old, c.new)
     IN  IF new = None
         THEN /\ Answer(c, FALSE, None)
              /\ UNCHANGED <<memory, llmCalls, wrote, writes>>
         ELSE /\ writes < MaxWrites /\ writes' = writes + 1
              /\ memory' = [memory EXCEPT ![s][c.path] = new]
              /\ wrote' = [wrote EXCEPT ![s][c.path] = None]
              /\ Display(s)
              /\ Answer(c, TRUE, None)
  /\ UNCHANGED folders

\* Mutant: only the directory the file was in is looked at.
EmptyParentOnly(dirs, files, p) ==
  {d \in Parents(p) :
     /\ Len(d) = Len(p) - 1
     /\ \A f \in MemFiles : Within(d, f) => files[f] = None
     /\ \A e \in dirs : Within(d, e) => e \in Parents(p)}

\* cleanup_empty_parent_directories: upwards from the file, until one is not empty.
EmptyParents(dirs, files, p) ==
  {d \in Parents(p) :
     /\ \A f \in MemFiles : Within(d, f) => files[f] = None
     /\ \A e \in dirs : Within(d, e) => e \in Parents(p)}

\* delete_memory, one path after the other: unlink raises on a directory, and what
\* came before it is deleted.
DeleteOne(done, p) ==
  IF done.raised THEN done
  ELSE IF p \in done.dirs THEN [done EXCEPT !.raised = TRUE]
  ELSE IF p \notin MemFiles THEN done
  ELSE IF done.files[p] = None THEN done
  ELSE LET files == [done.files EXCEPT ![p] = None]
       IN  [done EXCEPT !.files = files,
                        !.dirs = @ \ EmptyParents(done.dirs, files, p),
                        !.deleted = @ \cup {p}]

\* What the first k of them leave.
DeletedUpto(files, dirs, paths) ==
  LET upto[k \in 0..Len(paths)] ==
        IF k = 0 THEN [files |-> files, dirs |-> dirs, deleted |-> {}, raised |-> FALSE]
        ELSE DeleteOne(upto[k - 1], paths[k])
  IN  upto

DeleteMemory(c) ==
  /\ c.command = "delete"
  /\ LET s    == c.session
         done == DeletedUpto(memory[s], folders[s], c.paths)[Len(c.paths)]
         ok   == ~done.raised /\ done.deleted # {}
     IN  /\ memory' = [memory EXCEPT ![s] = done.files]
         /\ folders' = [folders EXCEPT ![s] = done.dirs]
         /\ wrote' = [wrote EXCEPT ![s] =
                        [f \in MemFiles |-> IF done.files[f] = None THEN None ELSE wrote[s][f]]]
         /\ IF ok THEN Display(s) ELSE UNCHANGED llmCalls
         /\ Answer(c, ok, done.deleted)
  /\ UNCHANGED writes

\* import_memory, one session after the other: copytree writes over what is there.
\* The session itself cannot be copied: its files are the same files.
ImportOne(s, done, from) ==
  IF done.raised THEN done
  ELSE IF from = s
  THEN [done EXCEPT !.raised = \E f \in MemFiles : done.files[f] # None]
  ELSE [done EXCEPT !.dirs = @ \cup folders[from],
                    !.files = [f \in MemFiles |-> IF memory[from][f] # None THEN memory[from][f]
                                                  ELSE done.files[f]],
                    !.wrote = [f \in MemFiles |-> IF memory[from][f] # None THEN wrote[from][f]
                                                  ELSE done.wrote[f]]]

\* What the first k of them bring.
ImportedUpto(s, from) ==
  LET upto[k \in 0..Len(from)] ==
        IF k = 0 THEN [files |-> memory[s], dirs |-> folders[s], wrote |-> wrote[s],
                       raised |-> FALSE]
        ELSE ImportOne(s, upto[k - 1], from[k])
  IN  upto

ImportMemory(c) ==
  /\ c.command = "import"
  /\ writes < MaxWrites /\ writes' = writes + 1
  /\ LET s    == c.session
         done == ImportedUpto(s, c.from)[Len(c.from)]
     IN  /\ memory' = [memory EXCEPT ![s] = done.files]
         /\ folders' = [folders EXCEPT ![s] = done.dirs]
         /\ wrote' = [wrote EXCEPT ![s] = done.wrote]
         /\ IF done.raised THEN UNCHANGED llmCalls ELSE Display(s)
         /\ Answer(c, ~done.raised,
                   {f \in MemFiles : done.files[f] # None
                                       /\ Frontmatter(AsRead(done.files[f])).content # <<>>})

-----------------------------------------------------------------------------
\* on_invoke_llm counts the calls, and reminds the agent from the RemindAfter-th on.
InvokeLlm(c) ==
  /\ c.command = "llm"
  /\ llmCalls[c.session] < MaxLlmCalls
  /\ llmCalls' = [llmCalls EXCEPT ![c.session] = @ + 1]
  /\ Answer(c, TRUE, IF llmCalls'[c.session] >= RemindAfter THEN "reminder" ELSE None)
  /\ UNCHANGED <<memory, folders, wrote, writes>>

SnoozeReminder(c) ==
  /\ c.command = "snooze"
  /\ llmCalls' = [llmCalls EXCEPT ![c.session] = Max({0, @ - SnoozeAmount})]
  /\ Answer(c, TRUE, None)
  /\ UNCHANGED <<memory, folders, wrote, writes>>

MemInit ==
  /\ memory = [s \in MemSessions |-> [f \in MemFiles |-> None]]
  /\ folders = [s \in MemSessions |-> {}]
  /\ llmCalls = [s \in MemSessions |-> 0]
  /\ wrote = memory
  /\ answer = [of |-> [command |-> "none"], ok |-> TRUE, data |-> None]
  /\ writes = 0

MemNext ==
  \E c \in MemCommands :
    \/ SearchMemory(c) \/ ReadMemory(c) \/ WriteMemory(c) \/ EditMemory(c)
    \/ DeleteMemory(c) \/ ImportMemory(c) \/ InvokeLlm(c) \/ SnoozeReminder(c)

-----------------------------------------------------------------------------
\* The directories that are there are those of the files: a write makes what it
\* needs, a delete takes away every directory it emptied and no other, also when it
\* stops half way, and an import brings none that is empty (utils.py,
\* cleanup_empty_parent_directories; extension.py:234).
FoldersHoldFiles ==
  \A s \in MemSessions : folders[s] = UNION {Parents(f) : f \in Present(s)}

\* What was written is what a search reads, tags and content, after any number of
\* writes, deletions and imports into other sessions, with NL for the ends of lines:
\* unless a content without tags begins with a rule itself, which is then taken for
\* a header, or a tag ends like a rule, where the header is then cut
\* (utils.py:15-46).
Misread(written) ==
  \/ written.tags = <<>> /\ IsPrefix(Rule, AsRead(written.content))
  \/ \E k \in DOMAIN written.tags : Last(written.tags[k]) = "-"
WrittenIsRead ==
  \A s \in MemSessions, f \in MemFiles :
    \/ wrote[s][f] = None
    \/ Misread(wrote[s][f])
    \/ /\ memory[s][f] # None
       /\ Frontmatter(AsRead(memory[s][f]))
            = [tags |-> wrote[s][f].tags, content |-> AsRead(wrote[s][f].content)]
=============================================================================
