----------------------------- MODULE LogConfig -----------------------------
(***************************************************************************)
(* The configuration of the loggers: ManagerLog, whose call operator reads *)
(* the "logs" entry of the configuration file and then asks the manager    *)
(* for a logger; ConfigVar, which compares the new value with the old one, *)
(* calls its listeners and only then stores it; and the listener LogIniter *)
(* that turns a changed definition into a configured Logger.               *)
(*                                                                         *)
(* Nobody locks a ConfigVar, so the program loads from one thread; between *)
(* any two steps of a load other code may make loggers with                *)
(* SYLAR_LOG_NAME, which constructs one and registers it nowhere.  A text  *)
(* is the sequence of the definitions in the file; patterns are model      *)
(* values, some of which LogFormatter cannot parse.                        *)
(***************************************************************************)
EXTENDS Naturals, Sequences, SequencesExt, FiniteSets

CONSTANTS Names,        \* names of loggers, "root" among them
          Faulty,       \* the patterns LogFormatter cannot parse
          Texts,        \* what the file may hold: sequences of definitions
          MaxLoads,     \* bound: loads of the configuration
          MaxKept       \* bound: loggers the program makes for itself

NoName == "no name"
NoPattern == "no pattern"

VARIABLES loggers,      \* the Logger objects somebody can reach
          m_loggers,    \* LoggerManager: logger of each registered name
          kept,         \* those made by SYLAR_LOG_NAME and kept
          m_val,        \* ConfigVar "logs": the set of definitions
          pc, text,     \* where the load is, and of what
          todo,         \* definitions the listener has still to look at
          temp,         \* the listener's logger: pattern it sets, its lock
          asked, loads  \* the name the caller wants; loads so far

vars == <<loggers, m_loggers, kept, m_val, pc, text, todo, temp, asked, loads>>

-----------------------------------------------------------------------------
(* A Logger as its constructor leaves it: DEBUG, both appenders. *)
NewLogger(n) == [name |-> n, level |-> "DEBUG", appenders |-> <<"stdout", "file">>]

(* LexicalCast of the text, which throws at a definition without a name: *)
(* appenders of no known type are left out, and std::set keeps the first *)
(* definition of a name.                                                 *)
Parses(t) == \A i \in DOMAIN t : t[i].name # NoName
Known(a) == a \in {"file", "stdout"}
Parsed(t) == {[t[i] EXCEPT !.appenders = SelectSeq(t[i].appenders, Known)] :
                i \in {j \in DOMAIN t : \A k \in 1..(j - 1) : t[k].name # t[j].name}}

(* LogDefine::operator==: "appenders == appenders" compares a list with *)
(* itself, so two definitions never differ in their appenders.          *)
Key(d) == <<d.name, d.level, d.formatter>>
SameValue(a, b) == {Key(d) : d \in a} = {Key(d) : d \in b}

-----------------------------------------------------------------------------
NoTemp == [pattern |-> NoPattern, locked |-> FALSE]

Init == /\ loggers = <<NewLogger("root")>>
        /\ m_loggers = {<<"root", 1>>}
        /\ kept = {}
        /\ m_val = {} /\ todo = {}
        /\ pc = "idle" /\ text = <<>> /\ asked = "root"
        /\ temp = NoTemp
        /\ loads = 0

(* SYLAR_LOG_NAME(n) in a static of the program. *)
Keep(n) == /\ Cardinality(kept) < MaxKept
           /\ loggers' = Append(loggers, NewLogger(n))
           /\ kept' = kept \union {Len(loggers) + 1}
           /\ UNCHANGED <<m_loggers, m_val, pc, text, todo, temp, asked, loads>>

(* ManagerLog()(n), up to ConfigVar::fromString. *)
Load(n, t) == /\ pc = "idle" /\ loads < MaxLoads
              /\ pc' = "set" /\ text' = t /\ asked' = n
              /\ loads' = loads + 1
              /\ UNCHANGED <<loggers, m_loggers, kept, m_val, todo, temp>>

(* fromString and the head of setValue: an exception is caught and leaves *)
(* the old value, and so does a value that compares equal.                *)
SetValue == /\ pc = "set"
            /\ LET changed == Parses(text) /\ ~SameValue(Parsed(text), m_val)
               IN  /\ pc' = IF changed THEN "listen" ELSE "get"
                   /\ todo' = IF changed THEN Parsed(text) ELSE {}
            /\ UNCHANGED <<loggers, m_loggers, kept, m_val, text, temp, asked, loads>>

(* One round of the listener's first loop.  An unchanged definition is     *)
(* skipped; for another SYLAR_LOG_NAME constructs a logger, which gets the *)
(* level and the appenders and is destroyed at the end of the round.       *)
Hear(d) ==
  /\ pc = "listen" /\ d \in todo
  /\ todo' = todo \ {d}
  /\ IF d.formatter # NoPattern /\ Key(d) \notin {Key(o) : o \in m_val}
       THEN pc' = "format" /\ temp' = [pattern |-> d.formatter, locked |-> FALSE]
       ELSE UNCHANGED <<pc, temp>>
  /\ UNCHANGED <<loggers, m_loggers, kept, m_val, text, asked, loads>>

(* Logger::setFormatter(string): takes the logger's mutex, and gives it *)
(* back at once if the pattern does not parse.                          *)
SetPattern == /\ pc = "format" /\ ~temp.locked
              /\ IF temp.pattern \in Faulty
                   THEN pc' = "listen" /\ temp' = NoTemp
                   ELSE pc' = "formatter" /\ temp' = [temp EXCEPT !.locked = TRUE]
              /\ UNCHANGED <<loggers, m_loggers, kept, m_val, text, todo, asked, loads>>

(* Logger::setFormatter(ptr), called with that mutex held: it takes the *)
(* same std::mutex.                                                     *)
SetFormatter == /\ pc = "formatter" /\ ~temp.locked
                /\ pc' = "listen" /\ temp' = NoTemp
                /\ UNCHANGED <<loggers, m_loggers, kept, m_val, text, todo, asked, loads>>

(* The listener's second loop touches only loggers it makes itself; then *)
(* setValue stores the value.                                            *)
Store == /\ pc = "listen" /\ todo = {}
         /\ m_val' = Parsed(text)
         /\ pc' = "get"
         /\ UNCHANGED <<loggers, m_loggers, kept, text, todo, temp, asked, loads>>

(* LoggerManager::getLogger: a name it does not know is registered with a *)
(* new logger (and the caller gets the root logger).                      *)
GetLogger == /\ pc = "get"
             /\ IF \E r \in m_loggers : r[1] = asked
                  THEN UNCHANGED <<loggers, m_loggers>>
                  ELSE /\ loggers' = Append(loggers, NewLogger(asked))
                       /\ m_loggers' = m_loggers \union {<<asked, Len(loggers) + 1>>}
             /\ pc' = "idle"
             /\ UNCHANGED <<kept, m_val, text, todo, temp, asked, loads>>

Loader == \/ SetValue \/ SetPattern \/ SetFormatter \/ Store \/ GetLogger
          \/ \E d \in todo : Hear(d)

Next == \/ Loader
        \/ \E n \in Names : Keep(n) \/ \E t \in Texts : Load(n, t)

(* The thread that loads runs on. *)
Spec == Init /\ [][Next]_vars /\ WF_vars(Loader)

-----------------------------------------------------------------------------
(* README.md:87-88: LogIniter "modifies the attributes of the Logger        *)
(* object when the configuration of the log changes".  A load of a changed, *)
(* readable file returns, and the loggers the program already had (its   *)
(* own and the registered ones) then have the level and the appenders the   *)
(* file defines for their name.                                             *)
Carries(t, l) == \A d \in Parsed(t) :
                   d.name = l.name => l.level = d.level /\ l.appenders = d.appenders
Configured ==
  \A t \in Texts, k \in 1..MaxLoads :
     (pc = "set" /\ text = t /\ loads = k /\ Parses(t) /\ Parsed(t) # m_val)
     ~> (pc = "get" /\ loads = k /\ \A i \in kept \union {r[2] : r \in m_loggers} :
                                        Carries(t, loggers[i]))
=============================================================================
