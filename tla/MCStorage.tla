------------------------------ MODULE MCStorage ------------------------------
(* The databases with their two kernels, a decoder and an encoder, a notebook between page    *)
(* and file, a thread that imports, scripts with files, the books and files of a page,        *)
(* forms and blobs, the queries of URLs, calls of native functions, wrappers of native values,*)
(* archives, and messages: one of them at a time.  Packages are imported beside a library that *)
(* stays, libraries that are saved beside packages that stay: they meet in one job only.      *)
EXTENDS MCDatabases, Encoding, Cells, Modules, Tabs, Paths

VARIABLES
    scene,
    memory, blob, form, sent, left,                                        \* Bodies
    params, url, made, turns,                                              \* Queries
    callee, bound, call,                                                   \* Calls
    object, named, native, entries, showing, wanted, acts,                 \* Wrappers
    threads, archive, source, zipped, work, removals, due,                 \* Archives
    fields, body, request, given, answered, asked, edits                   \* Messages

Scenes == {"databases", "texts", "cells", "packages", "libraries", "files", "tabs", "bodies",
           "queries", "calls", "wrappers", "archives", "messages"}

AllCodes ==
    {<<"x", "">>, <<"x", Longer, "y">>, <<Edge, Js, Disabled, "", "z">>}

-----------------------------------------------------------------------------
MountedAt(root, rw) == [root |-> root, rw |-> rw]
AllInside == <<>> :> MountedAt(<<>>, FALSE) @@ <<"t">> :> MountedAt(<<"d">>, TRUE)
OneBeside == <<>> :> MountedAt(<<"d">>, TRUE) @@ <<"t">> :> MountedAt(<<"e">>, FALSE)
SmallTree ==
    <<>> :> 0 @@ <<"d">> :> 0 @@ <<"e">> :> 0 @@ <<"d", "a">> :> 2 @@ <<"e", "a">> :> 1

NotMade == <<"t">> :> MountedAt(<<"d", "b">>, TRUE)
AllTables == {AllInside, OneBeside, NotMade}
AllTrees == {SmallTree}
(* One path goes up and stays in its mount, another leaves it. *)
ScriptPaths ==
    {<<"t">>, <<"t", "a">>, <<"t", "a", "..", "b">>, <<"t", ".h">>, <<"e", "a">>,
     <<"t", "a", "..", "..", "e">>}

StoredFiles == <<"book", "a">> :> 91 @@ <<"lib", "b">> :> 92

Body == INSTANCE Bodies WITH
        Texts <- {<<>>, <<"a", "crlf">>, <<"crlf", "--", "--", "--", "a">>},
        Names <- {<<"n">>, <<"quote", "crlf">>},
        Labels <- {[type |-> <<>>, name |-> <<"">>],
                   [type |-> <<"text/css">>, name |-> <<"f">>]},
        Types <- {<<"text/css">>}, Given <- {<<"crlf">>}, Ids <- <<"id1", "id2">>,
        Cuts <- {-3, -1, 1, 3}, MaxEntries <- 2,
        Budgets <- {[blobs |-> 0, deeds |-> 5], [blobs |-> 2, deeds |-> 4]}
bodiesVars == <<memory, blob, form, sent, left>>

Query == INSTANCE Queries WITH
        Keys <- <<<<>>, <<"a">>, <<"b", " ">>>>,
        Values <- {<<>>, <<"&", "a", "=">>, <<"%", "26">>, <<"+", " ">>},
        Hosts <- {[host |-> <<"h">>, port |-> None], [host |-> <<"h">>, port |-> <<"80">>],
                  [host |-> <<"[", ":", ":", "1", "]">>, port |-> <<"81">>]},
        MaxParams <- 3, MaxSteps <- 4
queriesVars == <<params, url, made, turns>>

Function == INSTANCE Calls WITH MaxArguments <- 3, Unlimited <- 99
callsVars == <<callee, bound, call>>

Wrap == INSTANCE Wrappers WITH
        MaxObjects <- 4, MaxDeeds <- 6, Contents <- {"c", "d"}, Names <- {"own", "set", "x"},
        Readable <- {"own"}, Writable <- {"set"}
wrappersVars == <<object, named, native, entries, showing, wanted, acts>>

Packed == INSTANCE Archives WITH
        Entries <- {"a", "b"}, Texts <- {1}, ByPath <- Unset, Other <- Missing,
        Requests <- {<<>>, "b" :> Unset, ("a" :> 0 @@ "b" :> 2)},
        Pieces <- {0, 2}, MaxTasks <- 2, MaxRemovals <- 1
archivesVars == <<threads, archive, source, zipped, work, removals, due>>

Message == INSTANCE Messages WITH
        NameOf <- "Content-Type" :> "type" @@ "content-type" :> "type"
                      @@ "Host" :> "host" @@ "x" :> "x",
        TypeField <- "Content-Type", Words <- {"v"}, Data <- {<<"d">>}, Prefix <- TRUE,
        Dict <- <<[spelled |-> "content-type", value |-> <<"u">>],
                  [spelled |-> "Content-Type", value |-> <<"v">>]>>,
        MaxEdits <- 3
messagesVars == <<fields, body, request, given, answered, asked, edits>>

-----------------------------------------------------------------------------
StorageInit ==
    /\ scene \in Scenes
    /\ Init /\ (play = Still <=> scene # "databases")
    /\ EncodingInit /\ (scene # "texts" => ~decoder.made)
    /\ CellsInit /\ (scene # "cells" => kind = "book")
    /\ ModulesInit
    /\ PathsInit /\ (scene # "files" => mount = AllInside)
    /\ TabsInit
    /\ Body!BodiesInit /\ (scene # "bodies" => left.blobs = 0)
    /\ Query!QueriesInit /\ (scene # "queries" => url.port = None)
    /\ Function!CallsInit /\ (scene # "calls" => callee.as = "getter")
    /\ Wrap!WrappersInit
    /\ Packed!ArchivesInit
    /\ Message!MessagesInit
    /\ scene # "archives" => threads = 1 /\ archive = None /\ zipped = None /\ source = 1

StorageNext ==
    /\ UNCHANGED scene
    /\ \/ /\ scene = "databases" /\ Next
          /\ UNCHANGED <<encodingVars, cellsVars, modulesVars, pathsVars, tabsVars, bodiesVars,
                         queriesVars, callsVars, wrappersVars, archivesVars, messagesVars>>
       \/ /\ scene = "texts" /\ EncodingNext
          /\ UNCHANGED <<vars, cellsVars, modulesVars, pathsVars, tabsVars, bodiesVars,
                         queriesVars, callsVars, wrappersVars, archivesVars, messagesVars>>
       \/ /\ scene = "cells" /\ CellsNext
          /\ UNCHANGED <<vars, encodingVars, modulesVars, pathsVars, tabsVars, bodiesVars,
                         queriesVars, callsVars, wrappersVars, archivesVars, messagesVars>>
       \/ /\ scene \in {"packages", "libraries"} /\ ModulesNext
          /\ IF scene = "packages" THEN UNCHANGED <<library, clock>> ELSE UNCHANGED packages
          /\ UNCHANGED <<vars, encodingVars, cellsVars, pathsVars, tabsVars, bodiesVars,
                         queriesVars, callsVars, wrappersVars, archivesVars, messagesVars>>
       \/ /\ scene = "files" /\ PathsNext
          /\ UNCHANGED <<vars, encodingVars, cellsVars, modulesVars, tabsVars, bodiesVars,
                         queriesVars, callsVars, wrappersVars, archivesVars, messagesVars>>
       \/ /\ scene = "tabs" /\ TabsNext
          /\ UNCHANGED <<vars, encodingVars, cellsVars, modulesVars, pathsVars, bodiesVars,
                         queriesVars, callsVars, wrappersVars, archivesVars, messagesVars>>
       \/ /\ scene = "bodies" /\ Body!BodiesNext
          /\ UNCHANGED <<vars, encodingVars, cellsVars, modulesVars, pathsVars, tabsVars,
                         queriesVars, callsVars, wrappersVars, archivesVars, messagesVars>>
       \/ /\ scene = "queries" /\ Query!QueriesNext
          /\ UNCHANGED <<vars, encodingVars, cellsVars, modulesVars, pathsVars, tabsVars,
                         bodiesVars, callsVars, wrappersVars, archivesVars, messagesVars>>
       \/ /\ scene = "calls" /\ Function!CallsNext
          /\ UNCHANGED <<vars, encodingVars, cellsVars, modulesVars, pathsVars, tabsVars,
                         bodiesVars, queriesVars, wrappersVars, archivesVars, messagesVars>>
       \/ /\ scene = "wrappers" /\ Wrap!WrappersNext
          /\ UNCHANGED <<vars, encodingVars, cellsVars, modulesVars, pathsVars, tabsVars,
                         bodiesVars, queriesVars, callsVars, archivesVars, messagesVars>>
       \/ /\ scene = "archives" /\ Packed!ArchivesNext
          /\ UNCHANGED <<vars, encodingVars, cellsVars, modulesVars, pathsVars, tabsVars,
                         bodiesVars, queriesVars, callsVars, wrappersVars, messagesVars>>
       \/ /\ scene = "messages" /\ Message!MessagesNext
          /\ UNCHANGED <<vars, encodingVars, cellsVars, modulesVars, pathsVars, tabsVars,
                         bodiesVars, queriesVars, callsVars, wrappersVars, archivesVars>>

storageVars ==
    <<scene, vars, encodingVars, cellsVars, modulesVars, pathsVars, tabsVars,
      bodiesVars, queriesVars, callsVars, wrappersVars, archivesVars, messagesVars>>

StorageFairness ==
    /\ \A t \in Server : SF_vars(scene = "databases" /\ Once(t))
    /\ \A t \in Scripts : WF_vars(scene = "databases" /\ (Finish(t) \/ Write(t) \/ Rename(t)))

StorageSpec == StorageInit /\ [][StorageNext]_storageVars /\ StorageFairness

-----------------------------------------------------------------------------
(* Texts arrive whole at a decoder and an encoder, and forms as they were sent; blobs keep    *)
(* their bytes; parameters and hosts of URLs are what they were made of, and headers, requests *)
(* and responses what the script made of them.                                                *)
RequestsKept ==
    /\ scene = "texts" => TextsKept
    /\ scene = "bodies" => Body!FormArrives /\ Body!BlobsKept
    /\ scene = "queries" => Query!ParamsKept /\ Query!HostKept
    /\ scene = "messages" =>
         Message!HeadersAsGiven /\ Message!BodyAsAnswered /\ Message!RequestAsAsked

(* Native functions are given what they declare, native values live as long as what shows     *)
(* them, and archives have in them what scripts wrote.                                        *)
NativesKept ==
    /\ scene = "calls" => Function!BindingIsCalling /\ Function!GivenAsDeclared
    /\ scene = "wrappers" => Wrap!ValuesKept /\ Wrap!NamesKept
    /\ scene = "archives" => Packed!ArchiveWhole /\ Packed!CompressedWhole
=============================================================================
