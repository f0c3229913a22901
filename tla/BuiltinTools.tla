---------------------------- MODULE BuiltinTools ----------------------------
(***************************************************************************)
(* src/peon/tools/ over src/peon/workspace.py: what read_file,             *)
(* list_directory, delete_file and run_command make of their arguments and *)
(* of what the file system or the shell answers.  Arguments come in the    *)
(* forms of Policy, answers in those the handlers tell apart.              *)
(***************************************************************************)

PathTools == {"read_file", "list_directory", "delete_file"}
Builtin   == PathTools \cup {"run_command"}

\* The specs: one required argument, a string, and an open schema.
BuiltinRisk(tool) ==
  CASE tool \in {"read_file", "list_directory"} -> "low"
    [] tool = "run_command" -> "medium"
    [] tool = "delete_file" -> "high"
ArgumentOf(tool) == IF tool \in PathTools THEN "path" ELSE "command"
BuiltinSpec(tool) ==
  [risk |-> BuiltinRisk(tool), properties |-> {ArgumentOf(tool)},
   required |-> {ArgumentOf(tool)}, closed |-> FALSE]

\* What a tool does: it returns a ToolResult, whose error is never empty when
\* it failed but may be blank, or it raises, with or without a message.
Succeeds       == [does |-> "succeed", message |-> "none"]
Fails(message) == [does |-> "fail", message |-> message]
Raised(message) == [does |-> "raise", message |-> message]
ToolOutcome == [does : {"succeed"}, message : {"none"}]
               \cup [does : {"fail"}, message : {"blank", "text"}]
               \cup [does : {"raise"}, message : {"empty", "blank", "text"}]

(***************************************************************************)
(* What the operating system answers: it does what is asked, it refuses    *)
(* with an OSError, the file is no UTF-8, the command exits with another   *)
(* code than 0, with something on stderr or with blanks only, or memory    *)
(* runs out, which raises MemoryError without a message.                   *)
(***************************************************************************)
SystemAnswer == {"done", "os_error", "undecodable", "exit_stderr", "exit_silent", "no_memory"}

\* A path or command with a NUL in it makes pathlib and subprocess raise a
\* ValueError, which no tool expects; so does a command that cannot be encoded.
WorkspaceRaises == Raised("text")

CallPath(tool, answer) ==
  CASE answer = "os_error" -> Fails("text")
    [] answer = "undecodable" -> IF tool = "read_file" THEN Fails("text") ELSE Succeeds
    [] answer = "no_memory" -> Raised("empty")
    [] OTHER -> Succeeds

\* The error of a command that failed is what it wrote to stderr, or its code
\* when that is blank.
CallShellStderrOnly(answer) ==
  CASE answer = "os_error" -> Fails("text")
    [] answer = "exit_stderr" -> Fails("text")
    [] answer = "exit_silent" -> Fails("blank")
    [] answer = "no_memory" -> Raised("empty")
    [] OTHER -> Succeeds
CallShell(answer) ==
  CASE answer \in {"os_error", "exit_stderr", "exit_silent"} -> Fails("text")
    [] answer = "no_memory" -> Raised("empty")
    [] OTHER -> Succeeds

\* execute: the argument is checked once more before the workspace is called.
Execute(tool, arguments, answer) ==
  LET argument == arguments[ArgumentOf(tool)]
  IN  CASE argument \in {"absent", "not_text", "blank"} -> Fails("text")
        [] argument \in {"unresolvable", "unrunnable", "rm_unrunnable"} -> WorkspaceRaises
        [] OTHER -> IF tool = "run_command" THEN CallShell(answer) ELSE CallPath(tool, answer)
=============================================================================
