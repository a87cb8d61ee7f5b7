------------------------- MODULE MCMonitorReports ---------------------------
EXTENDS MonitorReports

Asked(kinds, reports, presses) == [kinds |-> kinds, reports |-> reports, presses |-> presses]
MCKinds ==
  {Asked({"heap"}, 3, 0), Asked({"timers"}, 4, 0), Asked({"signals"}, 4, 0), Asked({"classes"}, 4, 2),
   Asked({"traffic"}, 3, 0), Asked({"traffic"}, 2, 2), Asked({"timers", "files"}, 3, 0),
   Asked({"signals", "files"}, 3, 0), Asked({"jams", "files"}, 3, 0), Asked({"traffic", "files"}, 2, 0),
   Asked({"classes", "files"}, 2, 1)}
NamesOnly == {Asked({"classes", "files"}, 2, 0), Asked({"jams", "files"}, 2, 0)}
HeapOnly == {Asked({"heap"}, 2, 0)}
MCNoName == Name("")
MCTimerKeys == {Name("t1"), Name("t2")}
MCLoadedClasses == {[name |-> "A", methods |-> 2], [name |-> "B", methods |-> 1], [name |-> "C", methods |-> 0]}

Frame(name, monitor) == [name |-> name, monitor |-> monitor, hook |-> FALSE, system |-> name = "java"]
Sample(frames) == [thread |-> "main", frames |-> frames]
MCSamples ==
  {Sample(<<Frame("m", x)>>) : x \in {0, 1}} \cup
  {Sample(<<Frame("m", 0), Frame("a", x)>>) : x \in {0, 1}} \cup
  {Sample(<<Frame("m", 1), Frame("b", 0)>>), Sample(<<Frame("m", 0), Frame("a", 0), Frame("java", 0)>>)}
=============================================================================
