--------------------------- MODULE PipelineStacks ---------------------------
(***************************************************************************)
(* The stacks that are deployed beside the backend: the ingestion          *)
(* pipelines, the EMR Serverless example and its VPC.  Their parameters    *)
(* are outputs of other stacks, copied by hand.  A VPC that is named by    *)
(* VpcID exists already and is no resource of theirs.                      *)
(***************************************************************************)
EXTENDS BackendStack

IngestorRaises(context) ==
  ~Given(context, "PipelineRoleArn") \/ ~Given(context, "OpensearchDomainEndpoint")

Pipelines == {"logsPipeline", "metricsPipeline"}

\* A log group stands for its resource policy as well.
IngestorFragment ==
  Fragment({"collectorPolicy", "logsLogGroup", "metricsLogGroup"} \cup Pipelines,
           {<<"logsPipeline", "logsLogGroup">>, <<"metricsPipeline", "metricsLogGroup">>})

IngestorVpcFragment ==
  Fragment({"pipelineSecurityGroup"}, Pipelines \X {"pipelineSecurityGroup"})

IngestorStack(context) ==
  Assemble({IngestorFragment} \cup
             (IF Given(context, "VpcID") THEN {IngestorVpcFragment} ELSE {}))

-----------------------------------------------------------------------------
EmrServerlessRaises(context) ==
  ~Given(context, "CollectorPolicyArn") \/ ~Given(context, "MetricsPipelineUrl")

\* The execution role and what it may read, write and pull; the repository, the
\* deployment of the image into it, and the resource whose deletion empties it, which
\* needs the repository only: the images may go before the application.
EmrRoleFragment ==
  Fragment({"emrRole", "emrRolePolicy", "destinationBucket", "emrEcr", "imageDeploy",
            "imageCleaner"},
           ({"emrRolePolicy"} \X {"emrRole", "destinationBucket", "emrEcr"})
             \cup ({"imageDeploy", "imageCleaner"} \X {"emrEcr"}))

\* The application names its image by text, and so refers to nothing; that it waits
\* for the deployment of the image is declared.
EmrApplicationFragment == Fragment({"emrServerless"}, {<<"emrServerless", "imageDeploy">>})

EmrVpcFragment ==
  Fragment({"emrSecurityGroup"}, {<<"emrServerless", "emrSecurityGroup">>})

TpcdsJob ==
  Fragment({"tpcdsJob"}, {"tpcdsJob"} \X {"emrServerless", "emrRole", "destinationBucket"})

EmrServerlessStack(context) ==
  Assemble({EmrRoleFragment, EmrApplicationFragment, TpcdsJob} \cup
             (IF Given(context, "VpcID") THEN {EmrVpcFragment} ELSE {}))

-----------------------------------------------------------------------------
VpcStack == Fragment({"vpc"}, {})
=============================================================================
