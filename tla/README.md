# Formal models of Xorn

Xorn is a set of libraries and tools for electronic schematics: a storage
library in C++ which keeps revisions of a schematic, Python bindings for it,
Python packages which read and write gEDA schematic files and extract netlists
from them, and command-line tools on top.  This directory holds TLA+ models of
its logic, the TLC configurations which check them on small instances, and
proofs, checked by TLAPS, for instances of any size.

All paths below are relative to the repository.

## 1. The system

| Part | State it keeps | Operations | What makes it correct |
|---|---|---|---|
| `src/storage` revisions and objects (`revision.cc`, `obstate.cc`, `manipulate.cc`, `object.cc`) | per revision three maps (`obstates`, `parent`, `children`) and `is_transient`; per object state a reference count; a global id counter | create, copy, finalize, free; add, set, relocate, delete, copy objects; queries | the three maps describe one ordered forest; reference counts are exact; a failed call changes nothing; a finalized revision never changes |
| `src/storage` attributes, selections, validation | none of their own; `set_attr` replaces object states | get, set and select by attribute; set operations; `data_is_valid` | all or nothing; invalid data never enters a revision |
| `src/cpython/storage` | Python wrappers of revisions and handles; data objects which share objects for line and fill styles | one method per library function; construct, change and prepare object data | what a Python program has set is what the library gets |
| `src/python` proxies (`proxy.py`, `storage.py`) | a revision and an object handle | attribute reads and writes as read-modify-write of object data | a write through a proxy changes one field |
| `src/python/fileutils.py` | the file system: target, temporary and backup file, their permissions | `write` | wherever it is interrupted, complete contents no older than before can be read from the file or its backup; a failed write leaves the file alone |
| `src/gaf/clib.py` | list of sources, the symbols each of them lists, caches of searches and symbols, child processes | add, remove and refresh sources, search, load and invalidate a symbol | caches agree with the sources, also when an address is used for another source; commands don't block |
| `src/python` formats (`fixednum.py`, `hybridnum.py`, `base64.py`, `xml_writer.py`) | the open elements of the file being written | format and parse numbers, binary data and elements | what is formatted is parsed to the same, to the last bit |
| `src/gaf` readers and writers | a revision under construction, a stack of open elements, tables of symbols, pixmaps and ids | read and write in the plain and XML formats | what is written can be read back; errors are reported, not swallowed |
| `src/gaf/attrib.py`, lookups in `blueprint.py` and `package.py` | parameters of components | look up attached and inherited attributes of components, packages, pins and nets | attached attributes hide inherited ones; conflicts are reported |
| `src/gaf/netlist` `conn.py`, `blueprint.py` | endpoints, connections, net pieces, pins | connect net segments and pins by coordinates, collect what is connected | two pins are in one net piece iff they are connected on the page |
| `src/gaf/netlist` `net.py` | local nets, nets, their names | group local nets by name, name nets | local nets are in one net iff names connect them; names are unique |
| `src/gaf/netlist` `netlist.py`, `instance.py` | schematics by filename, sheets | load schematics and what they refer to, instantiate them | each is loaded once and has one sheet per use |
| `src/gaf/netlist` `pp_power.py`, `pp_slotting.py`, `pp_netattrib.py` | pins by number and sequence, names of net pieces, artificial pins | resolve power symbols, slots and `net=` attributes | pins have the numbers, and nets the names, the attributes say |
| `src/gaf/netlist` `pp_hierarchy.py`, `pp_graphical.py` | component instances on their sheets, pins in the lists of two kinds of nets | connect ports, remove what isn't a component | each pin is in exactly one net, nets are joined through the hierarchy, exceptions only follow reported errors |
| `src/gaf/netlist` `package.py`, end of `netlist.py` | packages and their pins, connections, dictionaries by name | group components into packages, drop unconnected pins, mangle names | no connection is lost, names lead to the right thing |
| `src/backend` | none beyond the netlist, except renaming tables, rows and groups | print a netlist in one of 50 formats, list parts, check design rules | renamed nets stay distinct; what is printed says the same as the schematics; nothing that is wrong goes unreported |
| `src/command` | options | front ends | exit status tells about errors; there is no output after one |

**How they interact.** The command-line tools read a file with `src/gaf`, which
builds a revision through the bindings of `src/storage`; symbols come from the
component library, which may run external commands.  The netlister builds
blueprints from (finalized) revisions, instantiates them, runs its
post-processing passes over the shared object graph, and hands the result to a
back-end.  Everything runs in one thread; the only other processes are the
commands of the component library and, when a file is written, whoever else
looks at the file system.

**What is hard about it.** There is no concurrency inside the library: the
hard behaviours are *sharing* (object states belong to several revisions, with
hand-kept reference counts), *partial failure* (an allocation may fail between
any two updates of three maps, and is undone by hand), *long sequences of legal
calls* which could drive the maps apart, *stale handles* (objects deleted by an
earlier iteration of the same loop), *index arithmetic* when an object moves
within a list, *recursion* over a structure the callers build, *caches* in the
component library, *crashes* between the renames of a file, and in the
netlister the *order* in which passes which merge and split nets are applied.
`PROJECT.json` lists them, each at its line.

## 2. The models

| Module | Models |
|---|---|
| `Storage` | the storage library: every call that changes a revision, and every way it can run out of memory |
| `StorageQueries` | the functions of `object.cc` which look at revisions, and what they rely on |
| `RevisionStore` | what the library promises: independent revisions, atomic calls, no memory |
| `StorageRefinement` | the mapping from `Storage` to `RevisionStore` |
| `StorageRefcountProofs`, `StorageTreeProofs` | theorems about `Storage`, for all constants |
| `StorageRefinementProofs` | the proofs that `Storage` implements `RevisionStore`, and that the functions in `StorageQueries` get what they rely on |
| `ObjectData` | the data of objects: `attributes.cc`, `validate.cc`, normalization in `obstate.cc` |
| `PythonData` | `cpython/storage/data_*.c`: the same data as Python objects |
| `Placement` | moving objects with the component they belong to (`plainformat.py`), ripper directions |
| `PlainObjects` | the lines of single objects in the plain file format (`plainread.py`, `plainwrite.py`) |
| `TextFormats` | `fixednum.py`, `hybridnum.py`, `base64.py`, overbars in text |
| `XmlObjects` | the elements of single objects in the XML file format (`xmlread.py`, `xmlwrite.py`) |
| `Conversions` | composes the six: the life of an object in the library, in files and in Python programs |
| `Documents` | schematics as the readers make them: revisions, symbols, pixmaps (`read.py`, `ref.py`) |
| `PlainFiles` | `plainread.read_file` and `plainwrite.write_file` |
| `XmlWriting`, `XmlReading` | `xmlwrite.py` with the states of `xml_writer.py`, and `xmlread.py` |
| `Files` | composes the four: conversion of whole files, and damage to them |
| `SafeWrite` | `write` in `fileutils.py`, the directory, and data on its way to the disk |
| `SafeWriteProofs` | theorems about `SafeWrite` |
| `ComponentLibrary` | `clib.py`: sources and the two caches |
| `ComponentLibraryProofs` | theorems about `ComponentLibrary` |
| `ConnectionMap` | `conn.py` and how `blueprint.py` collects net pieces from it |
| `ConnectionMapProofs` | theorems about `ConnectionMap` |
| `Schematics` | the first part of `netlist.py`: loading, attributes (`pp_power.py`, `pp_slotting.py`, `pp_netattrib.py`), instantiation |
| `NetGrouping` | `net.py`: grouping and naming of nets |
| `NetGroupingProofs` | theorems about `NetGrouping` |
| `Hierarchy` | `pp_hierarchy.py` and `pp_graphical.py`, on the instances made by `netlist.py` |
| `HierarchyProofs` | theorems about `Hierarchy` and `Packages` |
| `Packages` | extends `Hierarchy` by the passes after it: `package.py` and the last part of `netlist.py` |
| `Attributes` | extends `Packages` by the attributes: `attrib.py`, and the lookups in `blueprint.py`, `package.py` and `net.py` |
| `NetlistFormats` | 19 back-ends which print a netlist, `util_alias.py`, and `util_repackage.py` for spice-sdb |
| `PartsLists` | sorting and grouping the rows of lists of parts |
| `Drc` | the design rules checker, `gnet_drc2.py` |
| `BackEnds` | composes the four: how `gaf netlist` runs a back-end, and the lists of parts |
| `MC...` | small instances of these for TLC |

The netlister modules model passes which run one after the other.  Each starts
from every small input the pass before it may leave: `ConnectionMap` from the
geometry of a page, `Schematics` from net pieces and attributes, `NetGrouping`
from local nets with their names, `Hierarchy` with `Packages` from local nets
which have been grouped.  `Attributes` and `BackEnds` go on from the final
netlist.

### Storage

| Code | Model |
|---|---|
| `struct xorn_revision` (`internal.h`) | `live`, `is_transient`, `obstates`, `parent`, `children`, indexed by revision |
| `class obstate` | an address in `Addr`; `refcnt[p]`, and `cell[p]` for its type and data |
| `static const char *next_object_id` | `next_object_id`; object handles are the numbers up to it |
| `data_is_valid` | membership in `ValidData` |
| normalization in `obstate::obstate` | the function `Normal`, applied wherever an object state is made |
| the instantiations of `set_attr<Attr>` with a value | `Setters`: functions from values of the types which have the attribute to changed data |
| a call which loops over objects | entered, one step per object, returned; its local variables are in `call` |
| `std::bad_alloc` at one of the allocations of a function | the actions `...Fails`, whose `stage` says which allocation it was |

A call which loops over objects is split into steps so that memory can run out
between any two objects; a call with a single update is one action, together
with everything it calls.  A call which reports an error before it has changed
anything is a stuttering step.  Object handles can only be obtained from the
library, so callers use those in `handles` (an id lost in a failed call is
never one of them).  `entry` is a history variable: it remembers what the
revision held when the running call was entered, and is used only by
properties and by the refinement mapping.

`delete_object_but_leave_entry`, `dump_children` and `copy_object` are
recursive.  Attached objects can't have anything attached to them; that this is
so is the invariant `AttachmentsTyped`, checked, not assumed: `copy_object` is
modelled with an explicit stack and would go on if it weren't, and
`TreeConsistent` would fail, as would `ListingFits`, the half of `QueriesFit`
which says that the list of objects has each of them once.

### The abstract store

`RevisionStore` has no addresses, no counts, no parent pointers and no
failures.  A revision is a value: data per object, and the order of objects
below each node.  Moving an object is taking it out and putting it in, deleting
is filtering, copying appends one copy per selected object with its attached
objects, in any order of the selected ones.  `StorageRefinement` maps a
revision to its contents, except that the one a call is working on counts as
unchanged until the call returns.  `ImplementsStore` says that every step of
`Storage` is then a step of `RevisionStore` or changes nothing: in particular
that a call which fails changes nothing.  One thing the abstract store has to
say is worth knowing: an object which is in a selection together with the
object it is attached to is copied *twice* by `xorn_copy_objects`, once
attached to the copy and once on its own.

### Conversions

An object is a function from its attributes to their values.  `set_attr`,
`get_attr`, `data_is_valid` and `obstate` are those of the library;
`SetAttribute` applies any value to any object.  `form` says where the object
is: stored, in a line of a plain file in one of five format versions, in an XML
element, or in a Python program, where members are changed one at a time.
`Embed` and `Extract` are the transformations for embedded symbols.  A line or
an element may be changed by hand before it is read (`orig` is then `None`, and
the object is only followed to the revision).  Numbers in XML files are
sequences of characters, and the functions which format and parse them are
applied to all short ones.

### Files

A file is a sequence of lines, or of the events of the XML parser (start, end
and data).  What single objects look like doesn't matter here; texts (which may
be attributes), paths, components and pictures are told apart because the
readers and writers do.  `ReadNext` makes the plain reader take one line in each
of its states; writing a file and reading XML are folds over objects and events,
done in one step, since nothing can come between.  `Edit` changes, adds,
repeats or removes an attribute, an element or data of an XML file.  The world
(is the symbol in the library, is the picture readable?) may change before the
file is read again.

### Schematics

`loading` is the stack of calls of `load_schematic`: what is left of each
schematic's references.  The passes `Power`, `Ports`, `Slotting`, `NetAttrib`,
`Graphical` and `Conflicts` are one step each; they touch every component
once and don't depend on each other's order of components.  What attributes say
is input: a `slotdef=` is a slot and pin numbers, a `net=` a name and pin
numbers, and `Malformed` stands for what can't be parsed.  A sheet is the path
of components which leads to it, and `traversal` the stack of
`s_traverse_sheet1`, bounded by Python's recursion limit.

### SafeWrite

The steps of `write` are the system calls it makes, in their order, with what
is computed between them; `pc` names the next one.  Data passes from the
program (`written`) through the buffer of the Python file object to the system
(`cached`) and to the disk (`stored`).  `Fail` is an exception in the `try`
block, whose handler makes the step `Unlink`; `AttributeFails` one after the
renaming.  `Kill` ends the program; `Crash` stops the system, after which the
directory may be any earlier one (`past`), since nothing synchronizes it, and
only stored data is left.  A new call may follow.  A file is named after the
version of the contents it was made for, so that "older" means something.

### ComponentLibrary

`sources` is `_sources`, `symbols` the lists obtained from the sources,
`search_cache` and `symbol_cache` the two dictionaries of the module.
`address` is `id(source)`; the address of a source nobody refers to any more
may be given to the next one.  Callers refer to a source they have received
from a search until `Release`.  The world outside is `offered` and `version`,
which `Edit` changes at any time.  `cleared` and `torn` are history variables.

### ConnectionMap

An object is its geometry.  `endpoints`, `s_conn_check_midpoint` and
`can_connect` are translated as operators (`can_connect` as `CanConnect`, and
the rest of `s_conn_update_line_object` as `EndsMeet` and `EndsInMiddle`).
`goto` connects everything; `StartNet`, `Enter` and `Return` are the recursive
`traverse_net` with its stack.  The order of sets in Python isn't known, so any
instance may be next.  At the end the nets are made from the pieces
(`MakeNets`), unless the assertion in the constructor of `Net` fails
(`AssertionFails`).  Symbols contain nothing but pins, as the constructor of
`Component` asserts.  The property is written without the code's case
distinctions, as chains of things which touch.  It is about pages which are
`Regular`, that is, without the two constellations described below
("Connections"); there, and only there, pieces may be something else and the
assertion may fail.

### NetGrouping

`next_net` and `next_label` are where the two nested loops are: `HandleLabel` is
one iteration of the inner one, with the merging of two nets in `Join`, and
`NextLocalNet` the end of one of the outer one.  Then there is one step to
choose names, one per pin to name what has no name, and one to drop nets
without pins.  Nets are numbered as they are made.  `net_of`, `local_nets`,
`names` and `net_dict` are the fields and the dictionary of the same names.

### Hierarchy

`components` is the netlist's list, `present` the ones still on their sheets;
`cpins` and `component_pins` are the two lists a pin is in.  The loop over
composite components has the steps `StartComposite`, `DisconnectPin` (one per
pin, with the search for ports), `ConnectPort` (one per port) and
`FinishComposite`; `Crash` is an exception where something isn't found in a
list or dictionary.  `failed` is `netlist.failed`: after an error the netlister
goes on with what it has, so most of the states have errors in them, and
`PinsListed` has to hold there, too.

### Packages

`Packages` continues where `Hierarchy` has finished.  `GroupPackages`,
`AssignNets` and `AssignConnections` are the parts of `package.py`,
`PackageCrash` the `KeyError` for a pin whose component is gone,
`RemoveUnconnected` and `CompileHashes` the end of the `Netlist` constructor.
Names are sequences of their parts between separators, so that a name found in
a schematic may look like a mangled one.  When names clash, any of the nets or
packages may end up in the dictionary, since the order of the lists isn't
modelled.

### Attributes and back-ends

What attributes say doesn't influence how packages are formed, so `texts` are
chosen when this has been done (`ReadAttributes`).  A text is a pair of name
and value or isn't an attribute; values which refer to a parameter are listed
in `Reference`.  Each lookup has an operator which gives what it returns
(`ComponentValue`, `PackageValue`, `PpinValue`) and one which says whether it
reports an error (`...Fails`).

`Invoke` is the rest of the program: it checks whether there has been an error,
runs one of the back-ends, and replaces the output file if it should.  What a
back-end does depends on nothing but the netlist, so each one is an operator
which gives what it writes: which packages with which attributes, which pins
under which names of nets, which groups of parts, or which complaints; and
whether it reports an error or ends with an exception.  The order of lines and
the layout aren't modelled, except where rows are sorted so that equal ones can
be counted.  Conversions of names (upper case, truncated, with other
separators) are tables from names to names, in which different names may become
the same.

## 3. What is checked

| Run | Asks | Bounds |
|---|---|---|
| `storage_sharing` | types (`TypeOK`), reference counts (`RefcountsExact`), fresh ids (`IdsFresh`), finalized revisions don't change (`FinalizedFrozen`), and `ImplementsStore` with sharing | 2 revisions, 3 addresses, 2 ids |
| `storage_tree` | the maps are one forest (`TreeConsistent`) in which only texts are attached, to what can hold them (`AttachmentsTyped`); the list of objects fits and moves can be undone (`QueriesFit`), and `ImplementsStore` with attached objects | 1 revision, 3 addresses, 4 ids |
| `object_data` | only valid, normalized data is stored (`StoredForm`); it comes back from files and Python programs (`Preserved`); readers make what people wrote storable (`ReadersRepair`); what is set is got and found (`SetIsGot`); transformations compose (`PlacementsAgree`); numbers, binary data and overbars survive (`FormatsExact`) | 2 changes; all types of objects with two or three styles each |
| `files` | each line read is taken for what it is (`LinesFaithful`), conversion keeps what a schematic means (`Converted`), damage to an XML file is noticed or makes a difference (`NothingIgnored`) | 7 lines, 3 objects; files of 2 objects are edited |
| `files_omitting` | expected to fail, see below (`EmbeddedKept`) | 2 lines |
| `safe_write` | what can be read after failures and kills (`NewestKept`), after crashes (`CrashKeepsOne`), and what a call which returned or raised has done (`OutcomeTrue`) | two calls, data in 2 pieces |
| `safe_write_synced` | expected to fail, see below (`SyncedBeforeRename`) | the same |
| `component_library` | symbols come from their source (`SymbolsOwned`) and aren't older than the last refresh (`SymbolsCurrent`); cached searches are right (`SearchesCurrent`) | 3 sources, 2 addresses, 1 symbol and a glob pattern, 1 edit per source |
| `connection_map` | pieces are what touches, and buses and nets stay apart (`PiecesTouch`), the traversal ends (`TraversalEnds`) | all pages of up to 3 of 8 segments, regular or not, and a resistor in 4 orientations with a connector in 2 or none, or two resistors sharing the objects of their pins |
| `schematics` | each schematic is loaded once and has one sheet per path (`SheetsUnfold`); pins have the numbers and nets the names the attributes say (`PinsNumbered`); there is an end to it (`Ends`) | 3 files, 4 components, references in all directions; 2 pins, 2 slots, 2 `net=` attributes; 4 levels |
| `net_grouping` | the assertions in the code (`GroupsConsistent`), grouping by chains of names (`GroupedByName`), distinct and preferred names (`NamesRight`) | 3 local nets on 2 sheets with up to 2 of 2 names each, all namespace options |
| `hierarchy` | the lists of pins agree (`PinsListed`); without errors, exactly what ports connect is joined and only components remain (`HierarchyResolved`), exceptions only after errors (`CrashReported`), packages and their pins (`PackagesExact`), connections up to the final netlist (`NothingLost`); lookups of attributes give what is attached, or report it (`LookupsAgree`), the design rules checker finds each pair of pins, lonely pin and slot that is wrong (`DrcFinds`), and netlists and lists of parts say the same as the schematics (`OutputExact`) | 2 composite components, nested or side by side, 3 sheets, 6 components, 7 pins, 6 local nets; for back-ends, 3 components in 1 to 3 packages with 20 sets of attributes, 27 back-ends |

**Bounds.** `MaxObject` bounds the ids which are ever handed out; when they are
used up, a copy fails as if memory had run out.  Four ids are the least with
which a list of three siblings can be reordered below a parent and which allow
a net with one attached text to be copied; three addresses are the
least with which a net, an attached text and a new state for one of them exist
at once, and two revisions what it takes to share a state.  `Addr` is also the
size of the heap: when all addresses are in use, nothing can be allocated.  A
free address is handed out again at once, so a reference which is kept too long
is seen as the wrong contents.  Revisions and addresses are interchangeable
(`Symmetry`); objects are not, since loops walk through them in order of their
ids.

`MaxEdits` lets an attribute be changed, normalized away and changed back, or be
set before it is written and edited in the file.  Seven lines are two objects
with an attribute list and an embedded symbol around one of them.  Files which
are edited have two objects, so that a reference can be repeated and an id be
taken away from what refers to it.

Two calls of `write` are what it takes for the second to find the remains of
the first, and two pieces of data for a file to be half written.  Two addresses
and three sources make one address serve two sources while the other is still
held.  On a page of three segments around a resistor a chain can be closed to a
cycle, pass through the resistor's two pins, and branch.  Three files are the
least with which two refer to each other while one of them refers to a third
before or after that; `RecursionLimit` is higher than paths without a cycle
are long.  Three local nets are the least with which a label merges two nets which have names already, in
either order; the second name is the one which the code would generate first.
In `Hierarchy`, two composite components can join the same net twice or through
two levels, and the lower one can be mistaken for a port of the upper one; pins
may lack their label or share it with another pin, and there are ports of the
new style, of the old style, of both, and with too many pins or just a bus.
In `Packages`, components on different sheets may have the same refdes, a refdes
which looks like a mangled one of the other sheet, or none, and there are nets
whose names clash after mangling.  Attributes are only added to some netlists
(`BackEndInput`): three components with two values each, or two slots, or three types of pins, are enough for a pair of rows with
another one between them, for a package whose components disagree, and for two
pins of one type among three; net names differ in case, in a separator, and
after the eighth character.

**Fairness.** `FairSpec` in `ConnectionMap` and `Spec` in `Schematics` assume
weak fairness of `Next`, which is one loop in one thread: the program goes on
while it can.  The storage library is specified without fairness.  Its
recursion over attached objects ends because nothing is attached to what is
attached, which is the safety invariant `AttachmentsTyped`.

**Deadlock** is checked for the storage library, where some call is always
possible.  The other programs modelled come to an end (`done`, `finished`,
`exited`, `crashed`, a file which has been read back), or use up the bounds.

**Mutants.** For every property there is a mutated definition next to the one
it replaces (named in `PROJECT.json`) with which TLC finds it violated.

### Disagreements found

By runs which are expected to fail:

* `os.fsync` is called before the buffer of the file object has been flushed
  (`src/python/fileutils.py:188`), so the file may be incomplete after a crash
  although the documentation of `fsync` says otherwise.
* With `--omit-pixmaps`, the data of *embedded* pictures, which is nowhere else,
  isn't written to an XML file either (`src/gaf/xmlwrite.py:256`); the option is
  said to be about referenced pixmaps (`src/command/convert.py:149`).

Met while modelling, and not shown by a run of their own:

* Storage library.  `xorn_get_modified_objects` is documented to list objects
  which "have different type or data" (`src/storage/object.cc:299`); it compares
  the addresses of object states (line 330), so that an object set to the data
  it already has counts as modified.
* Python data.  Two data objects may hold the same `LineAttr`; changing it
  changes both, until one is prepared.  Initializing a component or picture a
  second time leaks the reference to its old symbol.
* Plain files.  A `[` leaves `ob` pointing at the component, which is in another
  revision, so that a `{` or `[` right behind it ends in a `KeyError`
  (`src/gaf/plainread.py:249`; `LinesFaithful` says that nothing else crashes).
  A missing `]` isn't reported.  The writer truncates fractions (`%d`).  An
  embedded symbol in an embedded symbol is transformed by the writer, but not
  transformed back by the reader.  Out-of-range values which the reader doesn't
  repair (dash styles, fill values, negative text sizes) end in a `ValueError`.
* XML files.  Ids are unique only per revision (`src/gaf/xmlwrite.py:270`),
  although they share one table (`src/doc/geda/xml-file-format.md:163`), so that
  a file with symbols which refer to symbols may not be readable.  An escaped
  backslash before an underscore is taken for an overbar.
* `src/python/fileutils.py` doesn't import `sys`, which the warnings at lines
  197, 212 and 217 use: a failed backup, or permissions which can't be
  restored, end in an exception.  The model has it so.
* Component library.  `refresh()` clears the caches only at its end
  (`src/gaf/clib.py:361`); if the list of one source can't be read, searches are
  answered from the cache of before although other sources have been updated.  A
  source which is a command fails because `executable` (`src/gaf/clib.py:236`)
  isn't defined.  A name which is found twice in a source is only warned about
  when sources are added, and raises in a search.  `search` returns the cached
  list itself (`src/gaf/clib.py:433`).
* Connections.  Pins at the same place which belong to two components with the
  same symbol aren't connected if they are the same pin of the symbol
  (`src/gaf/netlist/conn.py:184`): objects are compared, not their instances.  A
  net which ends in the middle of a bus is connected to it (`conn.py:249`) and
  makes the assertion on nets fail (`src/gaf/netlist/blueprint.py:425`).  There
  are such pages in the run `connection_map`; `Regular` excludes them where
  `PiecesTouch` says what the pieces are.
  `error_object` isn't defined at `src/gaf/netlist/blueprint.py:67`.
* Hierarchy.  Schematics which contain each other are instantiated until the
  recursion limit is reached (`src/gaf/netlist/netlist.py:269`; `SheetsUnfold`
  says that nothing else leads there).  An I/O symbol whose only pin is a bus
  has no instantiated pin, and ends the netlister with an `IndexError` at
  `src/gaf/netlist/pp_hierarchy.py:133` without an error having been reported;
  `CrashReported` makes an exception for this.  Two composite components with
  the same refdes share a namespace, so that components inside them with the
  same refdes become one package without a warning.  `mangle`
  (`src/command/netlist.py:127`) calls `reverse` on a tuple if the parts of the
  hierarchy tag are to be in reverse order, which raises an exception.
* Attributes.  `get_attribute_names` means to pass over malformed attributes,
  but catches an exception by the wrong name
  (`src/gaf/netlist/blueprint.py:270`); `LookupsAgree` makes an exception for
  components which have one.
* Back-ends.  If two refdes become the same, `build_refdes_aliases` asks a
  package for its `name`, which it doesn't have (`src/backend/util_alias.py:71`),
  so that the program ends with an exception instead of the error it means to
  report.  `repackage` does the same twice (`src/backend/util_repackage.py:93`
  and 148).  `partslist3` sorts without regard to case, but groups what is
  exactly the same: of values which only differ in case, it counts rows in
  between as if they were the same (`src/backend/gnet_partslist3.py:28`; hence
  the condition `Twins` in `OutputExact`).  The design rules checker has no
  element in its matrix for unconnected pins of an unknown type
  (`src/backend/gnet_drc2.py:563`).  It is to "make gnetlist return an error if
  there are DRC errors" (line 699), but only writes a message.

## 4. What is proved

For any finite numbers of revisions and addresses, any number of ids, and any
types, data and setters that satisfy `StorageAssumption`:

* `TypeCorrect`: `Spec => []TypeOK` (`StorageRefcountProofs`).  `TypeOK` is
  inductive.  Besides types it says that a call in progress works on a live,
  transient revision and that handles and copied objects are ids which have
  been handed out.
* `RefcountsCorrect`: `Spec => []RefcountsExact` (`StorageRefcountProofs`).
  `RefcountsExact` is not inductive on its own: a copied object gets its state
  by adding one reference to an entry that has to be empty before, and freeing
  a revision has to leave no entries behind.  The inductive invariant
  `RefcountInv` adds that ids not handed out have no object state
  (`ObstatesFresh`) and that revisions which aren't live are empty
  (`DeadEmpty`).  The key lemma, `RowExact`, says how the number of uses of an
  address changes when one revision's map changes.
* `FinalizedIsFrozen`: `Spec => FinalizedFrozen` (`StorageRefcountProofs`).
  Every step leaves the maps of all finalized revisions alone, and the memory
  which is in use before and after it; since a revision's entries are in use by
  `RefcountsExact`, what is seen through it stays the same.
* `TreeIsConsistent`, `AttachmentsAreTyped`, `IdsAreFresh`:
  `Spec => []TreeConsistent` and so on (`StorageTreeProofs`).  Neither of the
  first two is inductive: what a copy attaches, it attaches to an object it has
  just copied, so that the calls which are still to be made have to be sound,
  too.  `TreeInv` adds to `RefcountInv` and the two properties that each entry
  of the stack of a copy in progress names an existing object, and one which
  can hold it (`CopyTargets`).  The lemmas `Lists...` say what appending,
  removing and moving an element do to a list without repetitions; they carry
  the index arithmetic of `xorn_relocate_object`.
* `StoreIsImplemented`: `Spec => ImplementsStore` (`StorageRefinementProofs`).
  There is one lemma per call: the step changes what is seen of one revision
  (`OneChanges`), to what `RevisionStore` says (`...Contents`), or of none
  (`NothingChanges`).  That memory which is in use is left alone, which
  `FinalizedIsFrozen` also rests on, is what keeps the other revisions as they
  are.  `Without`, which takes elements out of a list, is characterized by
  positions which increase (`Keeps`, `KeepsWithout`, `WithoutKeeps`), since
  there is no induction over lists; taking an element out in front of which it
  has been put in again (`MovedWithin`) is the arithmetic of relocating.  The
  steps of a loop have to change nothing, and returning has to be the whole
  call, so an invariant, `LoopInv`, has to say how far a loop has come.  While
  objects are deleted, deleting those which are left from what there is now
  comes to deleting some set of objects from what there was (`Deleting`); for
  a failed copy which is being undone, the empty set.  While objects are copied,
  there is an order of the selected objects such that the first of them, with
  what is attached to them, have been copied to the end of the object list, and
  the stack of calls to be made is what is left of it (`Copying`).  The heart of
  the proof is that one step of `copy_object` keeps this (`CopyingTop`,
  `CopyingAttached`), that it ends in `WithCopies` (`CopyingEnds`), and that
  deleting the copies which have been made gives back what there was
  (`CopiesUndone`).  TLC has checked `LoopInv` on the instance of
  `storage_tree`, too.
* `QueriesAlwaysFit`: `Spec => []QueriesFit` (`StorageRefinementProofs`), from
  `TreeInv`.  How lists of children unfold to the list of all objects is a
  recursive function; that it is there at all, and that its value for the first
  k objects lists exactly these and what is attached to them, is proved by way
  of the least number for which it fails (`Unfolding`, `FlattenLists`).  Blocks
  of two objects have nothing in common, so the list has each object once.
  Moving an object changes each list only in that the object is taken out and
  put in somewhere (`MovedOthers`); hence moving it twice is the same as moving
  it once, and putting it before what then is at its old place puts it there
  (`PutBack`).

For any amount of data and any number of calls (`SafeWriteProofs`):

* `CallsCorrect`: `Spec => []CallInv`, where `CallInv` says about every
  directory there has been that its versions are in order and its backup was
  once the file (`PastOK`), and about the running call how far it has come
  (`PhaseOK`: untouched before the first rename; complete before the second).
* `NewestIsKept`, `OutcomesTrue` and `CrashesKeepOne` follow from it.  A crash
  goes back to any directory of the past, which is why the invariant has to
  talk about all of them.

For any number of sources, addresses and symbols (`ComponentLibraryProofs`):

* `LibraryIsConsistent`: `Spec => []LibraryInv`.  What has to be added to the
  three properties is that cached searches only name sources which are listed
  (`Cached`); otherwise a caller could get a source which nobody keeps alive,
  and whose address may belong to another one.
* `SymbolsAreOwned`, `SymbolsAreCurrent` and `SearchesAreCurrent` follow.

For any number of composite components, ports, pins and nets
(`HierarchyProofs`):

* `PinsAreListed`: `Spec => []PinsListed`, and `PackagesPinsAreListed` the same
  for the passes in `Packages`.  `PinsListed` compares the list of a net with
  the lists of its local nets as sets; for the union of the local nets' lists
  to stay the same when one pin is moved, no pin may be in two of them.
  `PinLists` adds this, and that the net at the other side of a composite
  component's pin is in the netlist while ports are still to be connected to
  it.
* `HierarchyIsResolved`: `Spec => []HierarchyResolved`, and
  `CrashesAreReported`: `Spec => []CrashReported`.  Both follow from
  `ResolvedInv`, which says how far the passes have come as long as there are
  no errors: local nets are only joined where names, pins and ports connect them
  (`NetsJoined`, "connected" being said with sets from which no connection leads
  out, as for `NetGrouping`); the ports of a pin which has been handled are on
  its net, or are still in the list of those to connect (`PortsJoined`); a pin is
  in its list until it has been disconnected or its component has been removed
  (`PinsKept`); and what has been removed are composite components, their ports,
  and no composite component which is still to come (`LoopKept`, `RemovedKept`).
  The last point is why the code is right to look only at components which come
  later: `collect_components` lists a component before those on its subsheets.
  The proof needs this, so `HierarchyAssumption` says it of the inputs, as well as
  that lists are finite; that a local net has pins on a single sheet had been
  assumed before.  A list of ports in the order of the components has each of
  them once (`InOrderLists`, `ConcatLists`), as ports with a `portname=` and
  old-style ones are never the same unless an error has been reported.
* `PackagesAreExact` and `NothingIsLost`, the same two properties of the whole
  of `PackagesSpec` (`PackagesHierarchyIsResolved`, `PackagesCrashesAreReported`).
  `PackagesInv` adds to the invariants above what each pass has established
  (`PackagesFormed`, `NetsAssigned`, `ConnectionsMade`, `Dictionaries`).  A pass
  which reports no error makes its choice unique: the first net found for a pin
  is its only net, and the last package or net with a name is the only one.  The
  pins on nets are exactly those of the components which are left
  (`PinsOnNets`), so all of them are known as pins of packages (`AllKnown`), and
  a net with two of them has more than one connection and stays.
  TLC has checked `ResolvedInv` and `PackagesInv` on the instance of `hierarchy`,
  too, except for what `NetsJoined` says of sets of local nets.

For pages of any size (`ConnectionMapProofs`):

* `PiecesAlwaysTouch`: `Spec => []PiecesTouch`.  The first half of it is
  geometry: on a regular page, two instances are connected by the code exactly
  if they touch (`LinkedTouch`), for all coordinates, orientations and kinds of
  lines.  The second half is `TraversalInv`, about the depth-first search: the
  connections go both ways (`ConnsKept`); an instance which has been reached and
  whose call has returned has all its neighbours in its own piece, so that none
  is left behind when its piece has been finished (`NeighboursKept`); and a
  piece can't be divided in two parts which aren't connected (`PiecesKept`).
  Like in `NetGrouping`, "connected" is said with sets from which no connection
  leads out, and needs no induction over chains.  That buses and nets don't mix
  follows: the buses of a piece are such a set.

For any number of local nets, labels and pins (`NetGroupingProofs`):

* `GroupsAreConsistent`, `GroupedByNames` and `NamesAreRight`:
  `Spec => []GroupsConsistent` and so on.  They follow from one inductive
  invariant, `GroupInv`, in which the properties of the final netlist have to
  be said of what has been done so far: the names of a net are those which the
  labels handled until now have given to its members (`NamesGiven`), a name
  leads to the one net which has it (`Dictionary`), two local nets which names
  don't connect are on different nets (`Connected`; that those which names do
  connect are on the same net follows from `NamesGiven` when all labels have
  been handled), and once names are given, they are names of the net they lead
  to (`Named`).  "Connected by names" is said with sets of local nets from
  which no shared name leads out, so that it needs no induction over chains.
* Lemmas: what the loop at the end of `Net.merge_into` appends (`AppendNewSet`,
  an induction over the loop, done by way of the least counterexample,
  `LeastNumber`), and that a generated name which is free exists among as many
  as are in use, and one more (`FirstFree`, by the pigeonhole principle).

Model-checked only: the liveness of `ConnectionMap` and `Schematics`, and all
properties of the modules which haven't been named here: the conversions of
values and files, loading schematics, attributes, and the
back-ends. Liveness is out of the
prover's reach. The library's induction theorems are, too, since they take a
predicate as an argument; induction over numbers can be had from the least
counterexample, as in `NetGroupingProofs` and `StorageRefinementProofs`. It would
take one such proof for each recursive function (how numbers are formatted in
`TextFormats`). The
recursive operators and the folds over the objects of a file (`Documents`,
`PlainFiles`, `XmlWriting`, `PartsLists`) can't be reasoned about at all. What
these compute for inputs of any length stays with TLC.

## 5. What is not modelled, and the plan

Not modelled:

* Storage library: pointers to Python objects inside object data
  (`incref`/`decref`, called once per object state, which `RefcountsExact`
  covers); `std::bad_alloc` from the two lookups at `manipulate.cc:370`, which
  stand outside the `try` block and let an exception escape from a C function;
  that loops return, as a liveness property (see *Fairness*); the set operations
  on selections, which are pure.
* Python: `proxy.py`, which passes calls on, and the wrappers which convert
  arguments; Guile.
* Files: escaping and layout of XML; names of files and backups in `write.py`;
  following symbolic links and files which aren't regular in `fileutils.write`.
* Component library: how the different kinds of sources find their symbols, and
  how commands are run.
* Netlister: the search in the source library, the parsing of attribute values;
  a `ConnectionMap` which goes from one revision to another (nobody does that);
  the order of the final lists; Python's recursion limit in `traverse_net`;
  values of parameters which contain references to parameters.
* Back-ends: those for simulators (SPICE cards, VHDL, VAMS, Verilog, SystemC,
  Switcap), gossip, and dumps for debugging; the device files of Allegro; line
  lengths and layout; writing to standard output and the interactive mode of
  `gaf netlist`.
* Option parsing in the command-line tools, build files, tests, documentation.

Theorems which would come next: lemmas about `ObjectData` (a state which has
been normalized stays as it is, and `set_attr` preserves `StoredForm`).
