----------------------------- MODULE MCAgentTools -----------------------------
(* The tools on small texts, trees and command lines. *)
EXTENDS AgentTools

MCCharacters == {"a", "b", "c", "d", "t", "u", "-", NL, CR, SP}

\* Two files with the same name, one with a blank line that ends in CR NL, and one
\* that is locked.
MCPaths == {"a/x", "b/x", "y", "z"}
MCNameOf == [p \in MCPaths |-> IF p \in {"a/x", "b/x"} THEN "x" ELSE p]
MCDisks == {("y" :> <<"a", NL, SP, CR, NL, "b">>) @@ ("a/x" :> <<"a">>) @@ ("b/x" :> None)
              @@ ("z" :> <<"a">>)}
MCPolicies ==
  {[operations |-> {"create", "update", "delete"}, blocked |-> {"z"}, allowed |-> {}],
   [operations |-> {"create"}, blocked |-> {}, allowed |-> {"y", "b/x", "z"}]}
Numbered(n, c) == <<n, <<c>>>>
MCFileCommands ==
  {[command |-> "view", path |-> "y", first |-> 1, last |-> last] : last \in {2, -1}}
  \cup {[command |-> "undo", path |-> p] : p \in MCPaths}
  \cup {[command |-> "delete", path |-> p] : p \in {"y", "a/x", "z"}}
  \cup {[command |-> "create", path |-> p, text |-> <<"c">>] : p \in MCPaths}
  \cup {[command |-> "createTag", path |-> "y", numbered |-> <<Numbered(n, "c"), Numbered(2, "d")>>] :
          n \in {1, 3}}
  \cup {[command |-> "str_replace", path |-> p, old |-> old, new |-> <<"c">>] :
          p \in {"y", "a/x", "z"}, old \in {<<"a">>, <<>>}}
  \cup {[command |-> "str_replace", path |-> "y", old |-> <<NL, SP, NL, "b">>, new |-> <<"c">>],
        [command |-> "str_replace", path |-> "y", old |-> <<"b">>, new |-> <<"c", NL, "c">>],
        [command |-> "replaceTag", path |-> "y", find |-> <<Numbered(2, "a")>>,
         numbered |-> <<Numbered(1, "b")>>],
        [command |-> "replaceTag", path |-> "y",
         find |-> <<Numbered(1, "c"), Numbered(2, "c")>>, numbered |-> <<>>],
        [command |-> "insert", path |-> "y", line |-> -1, new |-> <<"a">>],
        [command |-> "insert", path |-> "b/x", line |-> 0, new |-> <<"a">>],
        [command |-> "insertTag", path |-> "y", find |-> <<Numbered(4, "a")>>,
         numbered |-> <<Numbered(1, "b")>>]}

\* A file at the top, one in a directory and one in a directory of that.
MCMemFiles == {<<2>>, <<1, 2>>, <<1, 1, 1>>}
Ruled == <<"-", CR, NL, "a">>
Carriage == <<"a", CR, NL, CR>>
Tag == <<"t">>
Dashed == <<"u", "-">>
Headed == <<"-", NL, "t", NL, "-", NL, "a">>
MCMemCommands ==
  {[command |-> "write", session |-> s, path |-> f, content |-> content, tags |-> tags] :
     s \in {"s1", "s2"}, f \in {<<2>>, <<1, 1, 1>>}, content \in {Carriage, Ruled, Headed},
     tags \in {<<>>, <<Tag>>}}
  \cup {[command |-> "write", session |-> "s1", path |-> <<1, 2>>, content |-> <<"a">>,
         tags |-> tags] : tags \in {<<<<"t", "-", "u">>, Tag>>, <<Tag, Dashed>>}}
  \cup {[command |-> "edit", session |-> "s1", path |-> f, old |-> <<"t">>, new |-> <<"b">>] :
          f \in {<<2>>, <<1, 2>>}}
  \cup {[command |-> "delete", session |-> "s1", paths |-> paths] :
          paths \in {<<<<1, 1, 1>>>>, <<<<1, 1, 1>>, <<1>>>>, <<<<2>>, <<1, 2>>>>}}
  \cup {[command |-> "import", session |-> "s1", from |-> from] :
          from \in {<<"s2">>, <<"s2", "s1">>}}
  \cup {[command |-> "search", session |-> "s1", paths |-> None, contains |-> "a",
         tags |-> tags, max |-> 1] : tags \in {<<>>, <<Tag>>}}
  \cup {[command |-> "read", session |-> "s1", path |-> p, first |-> 1, last |-> -1] :
          p \in {<<1>>, <<1, 2>>}}
  \cup {[command |-> command, session |-> "s1"] : command \in {"llm", "snooze"}}

\* uniq -f n file, sort -o file, and a command that is disallowed.
Word(t) == [type |-> "word", text |-> t]
Name(t) == [type |-> "command_name", text |-> t]
Redirect == [type |-> "file_redirect", text |-> "out"]
Parsed(nodes) == [nodes |-> nodes, words |-> <<>>, first |-> None]
MCFormOf ==
  ("-f" :> [kind |-> "short", options |-> <<"-f">>, valued |-> FALSE])
  @@ ("-cf" :> [kind |-> "short", options |-> <<"-c", "-f">>, valued |-> FALSE])
  @@ ("--output=x" :> [kind |-> "long", options |-> <<"--output">>, valued |-> TRUE])
  @@ ("--output" :> [kind |-> "long", options |-> <<"--output">>, valued |-> FALSE])
  @@ ("--" :> [kind |-> "end", options |-> <<>>, valued |-> FALSE])
  @@ ("x" :> [kind |-> "plain", options |-> <<>>, valued |-> FALSE])
  @@ [name \in {"y", "out", "uniq", "sort", "rm", "git", "/x"} |->
        [kind |-> "plain", options |-> <<>>, valued |-> FALSE]]
MCArgs == {<<>>} \cup {<<a>> : a \in {"x", "-f", "--"}}
            \cup {<<a, b>> : a, b \in {"x", "-f", "-cf", "--output", "--"}}
            \cup {<<a, b, "x">> : a, b \in {"x", "-f", "-cf", "--output=x", "--"}}
CommandNode(name, args) == <<Name(name)>> \o [i \in DOMAIN args |-> Word(args[i])]
MCCommandLines ==
  {Parsed(<<CommandNode(name, args)>>) : name \in {"uniq", "sort"}, args \in MCArgs}
  \cup {Parsed(<<CommandNode("uniq", <<>>), CommandNode(name, <<"x">>)>>) : name \in {"rm", "git", "/x"}}
  \cup {Parsed(<<<<Name("sort"), Word("x"), Redirect, Word("--output")>>>>), Parsed(<<>>),
        Parsed(<<CommandNode("sort", <<"y">>), CommandNode("sort", <<"x">>)>>),
        [nodes |-> None, words |-> <<"sort", "|", "uniq">>, first |-> "sort"],
        [nodes |-> None, words |-> <<>>, first |-> None],
        [nodes |-> <<>>, words |-> <<>>, first |-> "rm"],
        [nodes |-> None, words |-> None, first |-> "rm"]}
MCAllowed == {<<"uniq">>, <<"sort">>, <<"git">>}
MCDisallowed == {<<"rm">>, <<"sort", "y">>}
MCOptionsWithArgs == ("uniq" :> {"-f"}) @@ ("sort" :> {"--output"})
MCDisallowedOptions == ("uniq" :> {}) @@ ("sort" :> {"--output"})
MCMaxFiles == ("uniq" :> 1) @@ ("sort" :> 9)
=============================================================================
