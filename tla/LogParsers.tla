----------------------------- MODULE LogParsers -----------------------------
(***************************************************************************)
(* The parsers of agent session logs (internal/adapter/logwatcher:         *)
(* parser_router.go, codexcli.go, claudecode.go): which parser a line goes *)
(* to, the events it yields, and the Codex parser's memory of the model    *)
(* each session last announced, which a restart loses.                     *)
(*                                                                         *)
(* A line is a record that keeps what the parsers branch on. The type of   *)
(* a response item or of a content block is its class: "tool" (tool_call,  *)
(* function_call, tool_use), "ignored" (reasoning, function_call_output),  *)
(* "denied" (tool_result and the like, anything ending in _result),        *)
(* "dynamic" (web_search...), "message" or "other"; named says that it has *)
(* a name and arguments. Usage is counted in units of one record.          *)
(***************************************************************************)
EXTENDS Naturals, Sequences, SequencesExt, FiniteSets

CONSTANTS
    Files,        \* session files
    CodexFiles,   \* those under a Codex directory (isCodexSource)
    SessionIds,   \* session ids, those no file has among them
    SessionOf,    \* file -> the id in its base name, or the base name
    Models,       \* model names
    NoModel,      \* the empty model name
    MaxBlocks     \* bound: content blocks of a message

ASSUME ParserAssumption ==
    /\ CodexFiles \subseteq Files /\ SessionOf \in [Files -> SessionIds]
    /\ NoModel \notin Models /\ MaxBlocks \in Nat

VARIABLES
    sessionModels, \* codexSessionModels: session key -> model
    parsedLine,    \* the line just parsed and its events, or None
    announced,     \* history: the model each file announced to its session since the restart
    lent           \* history: the model another file announced to that session later

parserVars == <<sessionModels, parsedLine, announced, lent>>

None == [file |-> "none"]

----------------------------------------------------------------------------
(* The lines of a log.                                                     *)

MessageBlocks == [type : {"input_text", "text", "tool"}, named : {TRUE}]
                 \cup [type : {"other"}, named : BOOLEAN]
BlockSeqs(B) == UNION {[1 .. n -> B] : n \in 0 .. MaxBlocks}
OwnModels == {NoModel, CHOOSE m \in Models : TRUE}

MessageLines == [type : {"response_item"}, item : {"message"}, role : {"user", "assistant", "developer"},
                 blocks : BlockSeqs(MessageBlocks), text : BOOLEAN, usage : BOOLEAN, model : {NoModel}]
ItemLines == [type : {"response_item"}, item : {"tool", "ignored", "denied", "dynamic", "other"},
              named : BOOLEAN, usage : BOOLEAN, model : OwnModels]
MetaLines == [type : {"session_meta"}, id : SessionIds \cup {"none"}, model : Models \cup {NoModel}]
OtherLines == [type : {"turn_context"}, model : Models \cup {NoModel}]
              \cup [type : {"token_count"}, model : OwnModels, usage : {TRUE}]
              \cup [type : {"event_msg"}, aborted : BOOLEAN]
              \cup [type : {"not_json", "bad_payload"}]
ClaudeLines == [type : {"assistant"}, blocks : BlockSeqs({"text", "tool_use"}), usage : BOOLEAN, model : OwnModels]
               \cup [type : {"user", "system", "progress", "unknown"}]

CodexRecordTypes == {"session_meta", "response_item", "event_msg", "turn_context", "token_count", "bad_payload"}

----------------------------------------------------------------------------
(* Events: what an event says of the call, its suffix (the part of         *)
(* deterministicID that tells the events of one line apart), its model and *)
(* its tokens.                                                             *)

Event(action, suffix, model, tokens) ==
    [action |-> action, suffix |-> suffix, model |-> model, tokens |-> tokens]

Unknown == <<Event("unknown", 0, NoModel, 0)>>

Tokens(line) == IF line.usage THEN 1 ELSE 0

\* Mutant: every event carries the usage of its record.
UsageOnEach(events, line) ==
    [i \in DOMAIN events |-> [events[i] EXCEPT !.tokens = Tokens(line)]]

(* The usage of a record is attached to its first event.                   *)
WithUsage(events, line) ==
    IF line.usage /\ events # <<>> THEN [events EXCEPT ![1].tokens = 1] ELSE events

----------------------------------------------------------------------------
(* codexcli.go                                                             *)

(* The session of a file: the UUID in its base name, in lower case, or the *)
(* base name.  Files of different directories may share it.                *)
extractCodexSessionID(f) == SessionOf[f]

(* A session_meta speaks for the session it names, of whatever file, and   *)
(* for that of its file only if it names none.                             *)
metaKey(f, line) == IF line.id = "none" THEN extractCodexSessionID(f) ELSE line.id

getCodexSessionModel(f) ==
    LET k == extractCodexSessionID(f) IN IF k \in DOMAIN sessionModels THEN sessionModels[k] ELSE NoModel

\* Mutant: the first model a session announces stays.
setCodexSessionModelOnce(key, model) ==
    IF model = NoModel \/ key \in DOMAIN sessionModels THEN sessionModels
    ELSE [k \in DOMAIN sessionModels \cup {key} |-> IF k = key THEN model ELSE sessionModels[k]]

setCodexSessionModel(key, model) ==
    IF model = NoModel THEN sessionModels
    ELSE [k \in DOMAIN sessionModels \cup {key} |-> IF k = key THEN model ELSE sessionModels[k]]

isTool(type, named) == type \in {"tool", "dynamic"} \/ (type = "other" /\ named)

modelOf(f, line) == IF line.model # NoModel THEN line.model ELSE getCodexSessionModel(f)

(* parseCodexMessageItem: one event per tool block, numbered in order; the *)
(* prompt of a user comes after them; an assistant's text is an event only *)
(* if there is no other.                                                   *)
ToolBlocks(line) == {i \in DOMAIN line.blocks : isTool(line.blocks[i].type, line.blocks[i].named)}

messageTools(line, model) ==
    [i \in 1 .. Cardinality(ToolBlocks(line)) |-> Event("tool", i - 1, model, 0)]

hasPrompt(line) == line.text \/ \E i \in DOMAIN line.blocks : line.blocks[i].type = "input_text"

\* Mutant: the prompt is always the first event.
parseCodexMessagePrompt(line, model) ==
    LET tools == messageTools(line, model)
        prompt == IF line.role = "user" /\ hasPrompt(line)
                  THEN <<Event("chat", 0, model, 0)>> ELSE <<>>
        reply == IF line.role = "assistant" /\ tools = <<>>
                 THEN <<Event("chat", 0, model, 0)>> ELSE <<>>
    IN  IF line.role = "developer" THEN <<>> ELSE WithUsage(tools \o prompt \o reply, line)

parseCodexMessageItem(line, model) ==
    LET tools == messageTools(line, model)
        prompt == IF line.role = "user" /\ hasPrompt(line)
                  THEN <<Event("chat", Len(tools), model, 0)>> ELSE <<>>
        reply == IF line.role = "assistant" /\ tools = <<>>
                 THEN <<Event("chat", 0, model, 0)>> ELSE <<>>
    IN  IF line.role = "developer" THEN <<>> ELSE WithUsage(tools \o prompt \o reply, line)

parseCodexResponseItem(f, line) ==
    CASE line.item \in {"ignored", "denied"} -> <<>>
      [] line.item = "message" -> parseCodexMessageItem(line, modelOf(f, line))
      [] isTool(line.item, line.named) -> <<Event("tool", 0, modelOf(f, line), Tokens(line))>>
      [] OTHER -> Unknown

parseCodexLine(f, line) ==
    CASE line.type = "session_meta" -> <<Event("session_meta", 0, line.model, 0)>>
      [] line.type = "response_item" -> parseCodexResponseItem(f, line)
      [] line.type = "token_count" -> <<Event("token_count", 0, modelOf(f, line), Tokens(line))>>
      [] line.type = "turn_context" -> <<Event("turn_context", 0, line.model, 0)>>
      [] line.type = "event_msg" -> IF line.aborted THEN <<Event("turn_aborted", 0, NoModel, 0)>> ELSE <<>>
      [] OTHER -> Unknown

(* The announcements: a session_meta stores the model under the id it      *)
(* carries, a turn_context under the id of the file.                       *)
sessionKey(f, line) == IF line.type = "session_meta" THEN metaKey(f, line) ELSE extractCodexSessionID(f)

learnModel(f, line) ==
    IF line.type \in {"session_meta", "turn_context"}
    THEN setCodexSessionModel(sessionKey(f, line), line.model) ELSE sessionModels

----------------------------------------------------------------------------
(* claudecode.go                                                           *)

parseAssistant(line) ==
    LET tools == [i \in 1 .. Cardinality({b \in DOMAIN line.blocks : line.blocks[b] = "tool_use"})
                    |-> Event("tool", i - 1, line.model, 0)]
        chat == IF line.usage /\ tools = <<>> THEN <<Event("chat", 0, line.model, 1)>> ELSE <<>>
    IN  WithUsage(tools \o chat, line)

ParseClaudeLine(line) ==
    CASE line.type = "assistant" -> parseAssistant(line)
      [] line.type = "system" -> <<Event("system", 0, NoModel, 0)>>
      [] line.type \in {"user", "progress"} -> <<>>
      [] OTHER -> Unknown

----------------------------------------------------------------------------
(* parser_router.go: a line goes to the Codex parser if its file or its    *)
(* type is Codex's.                                                        *)

isCodex(f, line) == f \in CodexFiles \/ line.type \in CodexRecordTypes

ParseLineForSource(f, line) == IF isCodex(f, line) THEN parseCodexLine(f, line) ELSE ParseClaudeLine(line)

ParserInit ==
    /\ sessionModels = [k \in {} |-> NoModel]
    /\ parsedLine = None
    /\ announced = [f \in Files |-> NoModel] /\ lent = announced

(* A file announces a model to a session, its own or another's.  The files *)
(* of that session have it from themselves or from the file that spoke.    *)
Announces(line) == line.type \in {"session_meta", "turn_context"} /\ line.model # NoModel

Announce(f, line) ==
    LET told == {g \in Files : SessionOf[g] = sessionKey(f, line)}
    IN  /\ announced' = [g \in Files |-> IF g = f /\ f \in told THEN line.model ELSE announced[g]]
        /\ lent' = [g \in Files |-> IF g \notin told THEN lent[g] ELSE IF g = f THEN NoModel ELSE line.model]

(* The watcher parses the next line of a file.                             *)
ReadLine(f, line) ==
    /\ parsedLine = None
    /\ parsedLine' = [file |-> f, line |-> line, events |-> ParseLineForSource(f, line)]
    /\ sessionModels' = IF isCodex(f, line) THEN learnModel(f, line) ELSE sessionModels
    /\ IF Announces(line) THEN Announce(f, line) ELSE UNCHANGED <<announced, lent>>

ReadMeta(f) == \E line \in MetaLines : ReadLine(f, line)
ReadMessage(f) == \E line \in MessageLines : ReadLine(f, line)
ReadOther(f) == \E line \in ItemLines \cup OtherLines \cup ClaudeLines : ReadLine(f, line)

(* The events are sent to the daemon.                                      *)
PassEvents == parsedLine # None /\ parsedLine' = None /\ UNCHANGED <<sessionModels, announced, lent>>

(* A restart keeps the offsets of the files and loses the models.          *)
ForgetModels ==
    /\ sessionModels' = [k \in {} |-> NoModel] /\ parsedLine' = None
    /\ announced' = [f \in Files |-> NoModel] /\ lent' = announced'

ParserNext ==
    \/ \E f \in Files : ReadMeta(f) \/ ReadMessage(f) \/ ReadOther(f)
    \/ PassEvents \/ ForgetModels

ParserSpec == ParserInit /\ [][ParserNext]_parserVars

----------------------------------------------------------------------------
(* The events of one line have different ids: two that shared one would be *)
(* a single row of the audit log, since the insert ignores a known id.     *)
EventIdsDistinct ==
    parsedLine # None =>
        \A i, j \in DOMAIN parsedLine.events :
            parsedLine.events[i].suffix = parsedLine.events[j].suffix => i = j

(* The usage a line reports is counted once: one event carries it if the   *)
(* line yields an event that was understood, and no event repeats it.      *)
HasUsage(line) == "usage" \in DOMAIN line /\ line.usage
TokensOnce ==
    parsedLine # None =>
        LET counted == {i \in DOMAIN parsedLine.events : parsedLine.events[i].tokens > 0}
            understood == {i \in DOMAIN parsedLine.events : parsedLine.events[i].action # "unknown"}
        IN  Cardinality(counted) = IF HasUsage(parsedLine.line) /\ understood # {} THEN 1 ELSE 0

(* A Codex record that names no model is given the model its own file      *)
(* announced to its session last since the daemon started, and none if it  *)
(* announced none, unless another file spoke for that session since: one   *)
(* of the same base name, or one whose session_meta names it.  Then it is  *)
(* the model of that file.  A file that only shares the table, an older    *)
(* announcement or one from before a restart never gives it (sync.Map      *)
(* codexSessionModels, codexSessionKey).                                   *)
SessionModel(f) == IF lent[f] = NoModel THEN announced[f] ELSE lent[f]
ModelCurrent ==
    parsedLine # None /\ parsedLine.line.type \in {"response_item", "token_count"}
      /\ parsedLine.line.model = NoModel =>
        \A i \in DOMAIN parsedLine.events :
            parsedLine.events[i].action # "unknown" => parsedLine.events[i].model = SessionModel(parsedLine.file)

=============================================================================
