------------------------------ MODULE MCStartup ------------------------------
\* Instances of Startup for TLC: the configuration files of the runs.
EXTENDS Startup

Line(k, v) == [key |-> k, value |-> v]

\* The file of the repository; a comment is a line whose key nobody asks for.
Shipped == <<Line("# General Settings", {}), Line("enable_cgroup", {1}),
             Line("total_threads", {120}), Line("total_memory_mb", {8192}),
             Line("total_disk_gb", {100})>>

\* A larger machine without cgroups; the last of two lines counts.
Large == <<Line("enable_cgroup", {0}), Line("total_threads", {60}),
           Line("total_threads", {400}), Line("total_disk_gb", {500})>>

\* Values that cannot be read, and a negative one.
Broken == <<Line("enable_cgroup", {2}), Line("total_threads", {-1}),
            Line("total_memory_mb", {})>>

MCFiles == {Shipped, Large, Broken}
===============================================================================
