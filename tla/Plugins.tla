------------------------------- MODULE Plugins -------------------------------
(***************************************************************************)
(* The plugins of the server: exec loads every library of a directory and  *)
(* sorts what it could load, create_session asks them one after the other, *)
(* and the deleter of server_plugin unloads them.                          *)
(***************************************************************************)
EXTENDS Integers, Sequences, FiniteSets

CONSTANTS
    Libraries,   \* the plugin directories: functions from files to what is in them
    StatusPlugin, \* the built-in plugin of /server_status
    HalfMax      \* UINT32_MAX / 2

ASSUME PluginsAssumption ==
    HalfMax \in Nat /\ \A d \in Libraries : \A f \in DOMAIN d :
        /\ f # StatusPlugin /\ d[f].order \in Int /\ d[f].init \in {"absent", "true", "false", "throws"}
        /\ {d[f].opens, d[f].create, d[f].destory} \subseteq BOOLEAN

VARIABLES
    lib,         \* the directory; order = -1: no plugin_order is exported
    phase,       \* of exec: load, serve, done
    unread,      \* the files that the directory_iterator has not reached
    m_plugins,
    calls        \* history: what was done with each library, create_session left out

pluginVars == <<lib, phase, unread, m_plugins, calls>>

PluginsInit ==
    /\ lib \in Libraries
    /\ phase = "load" /\ unread = DOMAIN lib /\ m_plugins = <<>>
    /\ calls = [f \in DOMAIN lib |-> <<>>]

-----------------------------------------------------------------------------
\* Mutant: the library is closed without a word.
deleterSilent(l) == <<"dlclose">>

\* The deleter of m_handler.
deleter(l) == (IF l.destory THEN <<"destory_plugin">> ELSE <<>>) \o <<"dlclose">>

\* What the constructor calls, and whether it gets to its end.
Opened(l) == IF ~l.opens THEN <<>>
             ELSE IF l.init = "absent" THEN <<"dlopen">> ELSE <<"dlopen", "init_plugin">>
Loads(l) == l.opens /\ l.init \in {"absent", "true"} /\ l.create /\ l.order >= 0

\* The next file of the directory, in whatever order these come.  An exception
\* of the constructor destroys m_handler, and the next file is tried.
LoadPlugin(f) ==
    /\ phase = "load" /\ f \in unread
    /\ unread' = unread \ {f}
    /\ LET l == lib[f]
       IN  /\ m_plugins' = IF Loads(l) THEN Append(m_plugins, [file |-> f, order |-> l.order]) ELSE m_plugins
           /\ calls' = [calls EXCEPT ![f] = IF Loads(l) \/ ~l.opens THEN Opened(l) ELSE Opened(l) \o deleter(l)]
    /\ UNCHANGED <<lib, phase>>

\* Mutant: the built-in plugin comes after the sorted ones.
SortedButLast(all, p) ==
    /\ \A i, j \in DOMAIN all : i < j /\ j < Len(all) => all[p[i]].order <= all[p[j]].order
    /\ all # <<>> => p[Len(all)] = Len(all)

\* std::sort, which is free to swap plugins of the same order.
Sorted(all, p) == \A i, j \in DOMAIN all : i < j => all[p[i]].order <= all[p[j]].order

\* The built-in plugin is added if it is enabled, with UINT32_MAX / 2.
SortPlugins ==
    /\ phase = "load" /\ unread = {}
    /\ \E all \in {m_plugins, Append(m_plugins, [file |-> StatusPlugin, order |-> HalfMax])} :
       \E p \in [DOMAIN all -> DOMAIN all] :
            /\ {p[i] : i \in DOMAIN all} = DOMAIN all
            /\ Sorted(all, p)
            /\ m_plugins' = [i \in DOMAIN all |-> all[p[i]]]
    /\ phase' = "serve"
    /\ UNCHANGED <<lib, unread, calls>>

-----------------------------------------------------------------------------
\* What the create_session of a plugin does with a request: claim it, decline
\* it, or throw the status of a route that has no such method.
Asked(f, url, method) ==
    IF f = StatusPlugin THEN IF url = "/server_status" /\ method = "GET" THEN "claims" ELSE "declines"
    ELSE IF url \notin DOMAIN lib[f].serves THEN "declines"
    ELSE IF method \in lib[f].serves[url] THEN "claims"
    ELSE IF lib[f].restful THEN "throws" ELSE "declines"

\* server::create_session: the first plugin that does not decline, or nobody.
create_session(url, method) ==
    LET willing == {i \in DOMAIN m_plugins : Asked(m_plugins[i].file, url, method) # "declines"}
    IN  {m_plugins[i].file : i \in {k \in willing : \A j \in willing : k <= j}}

\* m_plugins.clear()
ClearPlugins ==
    /\ phase = "serve"
    /\ m_plugins' = <<>>
    /\ calls' = [f \in DOMAIN lib |->
                    IF \E i \in DOMAIN m_plugins : m_plugins[i].file = f
                    THEN calls[f] \o deleter(lib[f]) ELSE calls[f]]
    /\ phase' = "done"
    /\ UNCHANGED <<lib, unread>>

-----------------------------------------------------------------------------
(* What server_plugin and exec keep true of the plugins *)

InPlugins(f) == \E i \in DOMAIN m_plugins : m_plugins[i].file = f
OrderOf(f) == IF f = StatusPlugin THEN HalfMax ELSE lib[f].order

\* Everything that loads is in m_plugins, from its loading until exec clears
\* them, with its order, and they are sorted before the first one is asked.
ListInv ==
    /\ phase \in {"load", "serve", "done"} /\ (phase # "load" => unread = {})
    /\ \A f \in DOMAIN lib : InPlugins(f) <=> f \notin unread /\ Loads(lib[f]) /\ phase # "done"
    /\ \A i \in DOMAIN m_plugins : m_plugins[i].order = OrderOf(m_plugins[i].file)
    /\ phase = "serve" => \A i, j \in DOMAIN m_plugins : i < j => m_plugins[i].order <= m_plugins[j].order

\* A library that was read is told what it has to be told: when it is not in
\* m_plugins any more, or never came there, the deleter has run as well.
CallsInv ==
    /\ DOMAIN calls = DOMAIN lib
    /\ \A f \in DOMAIN lib :
         calls[f] = IF f \in unread \/ ~lib[f].opens THEN <<>>
                    ELSE IF InPlugins(f) THEN Opened(lib[f]) ELSE Opened(lib[f]) \o deleter(lib[f])

Called(f, call) == {i \in DOMAIN calls[f] : calls[f][i] = call}

CleanedUp(f) ==
    /\ Cardinality(Called(f, "destory_plugin")) = 1
    /\ \A i \in Called(f, "init_plugin"), j \in Called(f, "destory_plugin"),
          k \in Called(f, "dlclose") : i < j /\ j < k

\* What one library may have been told: after init_plugin, destory_plugin once
\* and before dlclose, in the end as many dlclose as dlopen, and neither of
\* them while it is among the plugins.
LifeOf(f) ==
    /\ Called(f, "dlclose") # {} /\ Called(f, "init_plugin") # {} /\ lib[f].destory => CleanedUp(f)
    /\ phase = "done" => Cardinality(Called(f, "dlclose")) = Cardinality(Called(f, "dlopen"))
    /\ InPlugins(f) =>
         Called(f, "dlopen") # {} /\ Called(f, "destory_plugin") \cup Called(f, "dlclose") = {}

\* A library that init_plugin was called of is told to clean up, once, before
\* it is closed, also when its loading fails half way, and is closed when
\* exec is done; a plugin that can be asked is neither told nor closed
\* (server_plugin::server_plugin and the order of things in exec).
LifeCycle == \A f \in DOMAIN lib : LifeOf(f)

=============================================================================
